---------------------------- MODULE Spec2Model ----------------------------
(* A model of src/scraper.js: the reconstruction of development            *)
(* application records from OCR'd words (findColumns, the row assembly,    *)
(* grouping and mergeRows stages of parseLines, formatAddress,             *)
(* formatReason), the sqlite store they are inserted into (insertRow) and   *)
(* the run of main, parsePdf and parseImage over the images of the         *)
(* documents, one OCR'd section after the other, each section cut from a   *)
(* copy of the page on which the horizontal rules have been painted over.  *)
(*                                                                         *)
(* Text is modelled as a sequence of one-character strings, so that        *)
(* counting "/" characters, splitting on white space, trimming and edit    *)
(* distances are computed rather than assumed.  A cell confidence is the   *)
(* mean of word confidences and is kept as the exact fraction num/den.     *)
EXTENDS Integers, Sequences, FiniteSets, TLC

VARIABLES
    pc,                       \* position of the run within parseLines / parsePdf
    scaleFactor,              \* the scaleFactor argument
    lines,                    \* the lines argument of findColumns / parseLines
    columns,                  \* the result of findColumns
    assembled,                \* parseLines: the row built from each line, before the gate
    rows,                     \* parseLines: let rows
    converted,                \* parseLines: the number of rows converted so far
    groups,                   \* parseLines: let groups
    developmentApplications,  \* parseLines: let developmentApplications
    pending,                  \* parsePdf: the applications still to be inserted
    database,                 \* the [data] table: council_reference -> row
    outcome,                  \* how the last insertRow promise settled
    rowsArgument,             \* the rows argument of a mergeRows call
    mergedRow,                \* the row returned by a mergeRows call
    address,                  \* the address argument of a formatAddress call
    formattedAddress,         \* the object returned by a formatAddress call
    AllStreetNames,           \* module-level vocabulary of street names
    AllSuburbNames,           \* module-level vocabulary of suburb names
    SpellingCorrections,      \* module-level table of corrections: <<word, correction>> pairs
    images,                   \* the images of the run, in the order main and parsePdf reach them
    imageIndex,               \* the image being examined (its index in images)
    sectionY,                 \* parseImage: let sectionY
    inFlight,                 \* the tesseract.recognize calls that have not returned
    session,                  \* the OCR engine's session: "none", "started" or "terminated"
    report,                   \* what the caller of main logged: "none", "Complete." or "error"
    totalCount,               \* findColumns: let totalCount
    jimpImage,                \* parseImage: let jimpImage, the dark pixels of each of its rows
    sectionHeight,            \* parseImage: let sectionHeight
    removals,                 \* parseImage: the passes over the image that removed its rules
    bands,                    \* parseImage: the sections cropped from the image so far
    reasonArgument,           \* the reason argument of a formatReason call
    returnedReason            \* the text returned by a formatReason call

\* the state of main, parsePdf and parseImage around one parseLines call
runVars == <<images, imageIndex, sectionY, inFlight, session, report>>

\* locals of findColumns and of one pass of the loop of parseImage, and a
\* call of formatReason
localVars == <<totalCount, jimpImage, sectionHeight, removals, bands,
               reasonArgument, returnedReason>>

vars == <<pc, scaleFactor, lines, columns, assembled, rows, converted, groups,
          developmentApplications, pending, database, outcome, rowsArgument,
          mergedRow, address, formattedAddress, AllStreetNames, AllSuburbNames,
          SpellingCorrections, runVars, localVars>>

\* the null of a cell's y (used as 0 in arithmetic)
NullY == -1

\* the null returned by findColumns
NullColumns == <<>>

-----------------------------------------------------------------------------
(* Program constants.                                                      *)

ColumnGap == 15
ColumnAlignment == 10
LineAlignment == 5
ColumnCount == 5
LineHeight == 15
SectionHeight == LineHeight * 2
SectionStep == 5

\* let scaleFactor = 5.0 in main
ScaleFactor == 5

(* Bounds of the model.                                                    *)

\* the largest number of rows handed to one mergeRows call
MaxBucket == 3

\* the largest number of lines handed to one findColumns call
MaxColumnLines == 2

\* the largest number of lines of one image handed to parseLines
MaxLines == 2

\* the largest number of applications handed to insertRow in a row
MaxPending == 3

\* the largest number of images in the documents of one run
MaxImages == 2

\* the largest number of rows handed to the grouping by Y co-ordinate
MaxGroupRows == 3

\* the largest count of a column in the filter of findColumns examined on its own
MaxClusterCount == 3

\* the largest height of an image examined section by section, in pixels
MaxImageHeight == 33

\* the largest number of pixel rows of a horizontal rule
MaxRuleRows == 2

\* the largest number of words and separators of a reason handed to formatReason
MaxReasonTokens == 3

-----------------------------------------------------------------------------
(* Generic helpers.                                                        *)

Abs(n) == IF n < 0 THEN -n ELSE n

Max(a, b) == IF a > b THEN a ELSE b

Min(a, b) == IF a < b THEN a ELSE b

\* TRUE for every value.  A loop whose accumulator grows with every pass
\* tests it before the next pass, so that the accumulator is evaluated pass by
\* pass and not as one nested expression at the end of the loop.
Evaluated(value) == value = value

\* all sequences over S of length 1..n
SeqsUpTo(S, n) == UNION {[1..k -> S] : k \in 1..n}

\* Confidence without Math.max(1, ...): the mean of no confidences is 0 / 0.
ConfidenceUnguarded(sum, count) == [num |-> sum, den |-> count]

\* The exact value of sum / Math.max(1, count) as a fraction.
Confidence(sum, count) == [num |-> sum, den |-> Max(1, count)]

\* a > b, a < n, a >= n on confidences
ConfidenceGreater(a, b) == a.num * b.den > b.num * a.den

\* ConfidenceBelow that does not count a confidence of 0 as below.
ConfidenceBelowNonZero(a, n) == a.num > 0 /\ a.num < n * a.den

ConfidenceBelow(a, n) == a.num < n * a.den

ConfidenceAtLeast(a, n) == a.num >= n * a.den

\* text.split("/").length - 1
SlashCount(text) == Cardinality({i \in DOMAIN text : text[i] = "/"})

\* text.indexOf("/") >= 0
HasSlash(text) == \E i \in DOMAIN text : text[i] = "/"

-----------------------------------------------------------------------------
(* mergeRows.                                                              *)

\* { y: null, texts: [], text: "", confidences: [], confidence: 0 }
EmptyCell ==
    [y |-> NullY, texts |-> <<>>, text |-> <<>>, confidences |-> <<>>,
     confidence |-> Confidence(0, 1)]

\* Math.abs(2 - (cell.text.split("/").length - 1))
SlashDistance(cell) == Abs(2 - SlashCount(cell.text))

\* ReplacesSlashCell with a strict comparison of the distances.
ReplacesSlashCellStrict(cell, mergedCell, mergedCellSlashDistance) ==
    /\ SlashDistance(cell) < mergedCellSlashDistance
    /\ ConfidenceGreater(cell.confidence, mergedCell.confidence)

\* The test that lets the cell of a later row replace the merged cell of the
\* received date and application number columns.  mergedCellSlashDistance is
\* computed once, from the first row, before the loop over the other rows.
ReplacesSlashCell(cell, mergedCell, mergedCellSlashDistance) ==
    /\ SlashDistance(cell) <= mergedCellSlashDistance
    /\ ConfidenceGreater(cell.confidence, mergedCell.confidence)

\* ReplacesCell with the comparison the other way round.
ReplacesCellLower(cell, mergedCell) ==
    ConfidenceGreater(mergedCell.confidence, cell.confidence)

\* The test used for the other columns.
ReplacesCell(cell, mergedCell) ==
    ConfidenceGreater(cell.confidence, mergedCell.confidence)

\* The loop over rowIndex for one column: text and confidence of the merged
\* cell are overwritten in place, its y, texts and confidences are kept.
RECURSIVE MergeColumn(_, _, _, _, _)
MergeColumn(rws, columnIndex, rowIndex, mergedCell, mergedCellSlashDistance) ==
    IF rowIndex > Len(rws) THEN mergedCell
    ELSE LET cell == rws[rowIndex][columnIndex]
             replaces == IF columnIndex = 1 \/ columnIndex = 2
                         THEN ReplacesSlashCell(cell, mergedCell, mergedCellSlashDistance)
                         ELSE ReplacesCell(cell, mergedCell)
             next == IF replaces
                     THEN [mergedCell EXCEPT !.text = cell.text,
                                             !.confidence = cell.confidence]
                     ELSE mergedCell
         IN MergeColumn(rws, columnIndex, rowIndex + 1, next, mergedCellSlashDistance)

\* mergeRows starting from a fresh row of empty cells instead of rows[0].
mergeRowsFresh(rws) ==
    [columnIndex \in DOMAIN rws[1] |->
        MergeColumn(rws, columnIndex, 2, EmptyCell, SlashDistance(EmptyCell))]

\* mergeRows(rows): columns are numbered from 1 here, so the received date is
\* column 1 and the application number column 2.
mergeRows(rws) ==
    [columnIndex \in DOMAIN rws[1] |->
        MergeColumn(rws, columnIndex, 2, rws[1][columnIndex],
                    SlashDistance(rws[1][columnIndex]))]

-----------------------------------------------------------------------------
(* Words.  A word as parseImage hands it on: text, confidence and the x, y *)
(* and width of its bounding box (height and choices are never read).      *)

Word(text, confidence, x, y, width) ==
    [text |-> text, confidence |-> confidence,
     bounds |-> [x |-> x, y |-> y, width |-> width]]

-----------------------------------------------------------------------------
(* findColumns.                                                            *)

\* columns.find(column => Math.abs(word.bounds.x - column.x) < ColumnAlignment * scaleFactor):
\* the index of the first such column, 0 when there is none
ClosestColumn(cols, x, sf) ==
    LET hits == {i \in DOMAIN cols : Abs(x - cols[i].x) < ColumnAlignment * sf}
    IN IF hits = {} THEN 0 ELSE CHOOSE i \in hits : \A j \in hits : i <= j

\* The body of "if (previousWord === null || gap >= columnGap * scaleFactor)".
CountColumnStart(cols, word, sf) ==
    LET closestColumn == ClosestColumn(cols, word.bounds.x, sf)
    IN IF closestColumn # 0
       THEN [cols EXCEPT ![closestColumn].count = @ + 1]
       ELSE Append(cols, [x |-> word.bounds.x, count |-> 1])

\* whether the word starts a potential column
StartsColumn(line, index, columnGap, sf) ==
    \/ index = 1
    \/ line[index].bounds.x - (line[index - 1].bounds.x + line[index - 1].bounds.width)
          >= columnGap * sf

\* for (let word of line)
RECURSIVE ColumnsOfLine(_, _, _, _, _)
ColumnsOfLine(cols, line, index, columnGap, sf) ==
    IF index > Len(line) THEN cols
    ELSE LET counted == IF StartsColumn(line, index, columnGap, sf)
                        THEN CountColumnStart(cols, line[index], sf)
                        ELSE cols
         IN IF Evaluated(counted)
            THEN ColumnsOfLine(counted, line, index + 1, columnGap, sf)
            ELSE cols

\* for (let line of lines)
RECURSIVE ColumnsOfLines(_, _, _, _, _)
ColumnsOfLines(cols, lns, lineIndex, columnGap, sf) ==
    IF lineIndex > Len(lns) THEN cols
    ELSE LET counted == ColumnsOfLine(cols, lns[lineIndex], 1, columnGap, sf)
         IN IF Evaluated(counted)
            THEN ColumnsOfLines(counted, lns, lineIndex + 1, columnGap, sf)
            ELSE cols

RECURSIVE TotalCount(_)
TotalCount(cols) ==
    IF cols = <<>> THEN 0 ELSE Head(cols).count + TotalCount(Tail(cols))

\* FilterLowCounts that also keeps a column whose count is averageCount / 2.
RECURSIVE FilterLowCountsInclusive(_, _)
FilterLowCountsInclusive(cols, total) ==
    IF cols = <<>> THEN <<>>
    ELSE IF Head(cols).count * (2 * ColumnCount) >= total
         THEN <<Head(cols)>> \o FilterLowCountsInclusive(Tail(cols), total)
         ELSE FilterLowCountsInclusive(Tail(cols), total)

\* columns.filter(column => column.count > averageCount / 2), where
\* averageCount = totalCount / 5: count > totalCount / 10
RECURSIVE FilterLowCounts(_, _)
FilterLowCounts(cols, total) ==
    IF cols = <<>> THEN <<>>
    ELSE IF Head(cols).count * (2 * ColumnCount) > total
         THEN <<Head(cols)>> \o FilterLowCounts(Tail(cols), total)
         ELSE FilterLowCounts(Tail(cols), total)

\* insertion of one column into a list sorted by x, after the columns that do
\* not compare greater (Array.prototype.sort with the comparator is stable)
RECURSIVE InsertByX(_, _)
InsertByX(sorted, column) ==
    IF sorted = <<>> THEN <<column>>
    ELSE IF Head(sorted).x > column.x
         THEN <<column>> \o sorted
         ELSE <<Head(sorted)>> \o InsertByX(Tail(sorted), column)

\* SortByX that leaves the columns in the order they were found.
SortByXUnsorted(cols) == cols

\* columns.sort((column1, column2) => ...)
RECURSIVE SortByX(_)
SortByX(cols) ==
    IF cols = <<>> THEN <<>>
    ELSE InsertByX(SortByX(SubSeq(cols, 1, Len(cols) - 1)), cols[Len(cols)])

\* the columns found with one value of columnGap
ColumnsAtGap(lns, sf, columnGap) ==
    LET found == ColumnsOfLines(<<>>, lns, 1, columnGap, sf)
    IN SortByX(FilterLowCounts(found, TotalCount(found)))

\* for (let columnGap = ColumnGap; columnGap >= 1; columnGap--)
RECURSIVE FindColumnsFrom(_, _, _)
FindColumnsFrom(lns, sf, columnGap) ==
    IF columnGap < 1 THEN NullColumns
    ELSE LET cols == ColumnsAtGap(lns, sf, columnGap)
         IN IF Len(cols) = ColumnCount THEN cols
            ELSE FindColumnsFrom(lns, sf, columnGap - 1)

findColumns(lns, sf) == FindColumnsFrom(lns, sf, ColumnGap)

-----------------------------------------------------------------------------
(* Text helpers: String.prototype.trim, split(/\s+/), Array.prototype.join *)
(* and toLowerCase on sequences of characters.                             *)

IsSpace(c) == c = " "

RECURSIVE TrimLeft(_)
TrimLeft(text) ==
    IF text # <<>> /\ IsSpace(Head(text)) THEN TrimLeft(Tail(text)) ELSE text

RECURSIVE TrimRight(_)
TrimRight(text) ==
    IF text # <<>> /\ IsSpace(text[Len(text)])
    THEN TrimRight(SubSeq(text, 1, Len(text) - 1))
    ELSE text

Trim(text) == TrimRight(TrimLeft(text))

\* texts.join(separator)
RECURSIVE Join(_, _)
Join(texts, separator) ==
    IF texts = <<>> THEN <<>>
    ELSE IF Len(texts) = 1 THEN texts[1]
    ELSE texts[1] \o separator \o Join(Tail(texts), separator)

\* text.split(/\s+/): current is the token being read, started tells whether
\* the last character read was not white space
RECURSIVE SplitFrom(_, _, _, _)
SplitFrom(text, index, current, tokens) ==
    IF index > Len(text) THEN Append(tokens, current)
    ELSE IF IsSpace(text[index])
         THEN IF index > 1 /\ IsSpace(text[index - 1])
              THEN SplitFrom(text, index + 1, current, tokens)
              ELSE SplitFrom(text, index + 1, <<>>, Append(tokens, current))
         ELSE SplitFrom(text, index + 1, Append(current, text[index]), tokens)

SplitSpaces(text) == SplitFrom(text, 1, <<>>, <<>>)

UpperCaseLetters ==
    <<"A", "B", "C", "D", "E", "F", "G", "H", "I", "J", "K", "L", "M",
      "N", "O", "P", "Q", "R", "S", "T", "U", "V", "W", "X", "Y", "Z">>

LowerCaseLetters ==
    <<"a", "b", "c", "d", "e", "f", "g", "h", "i", "j", "k", "l", "m",
      "n", "o", "p", "q", "r", "s", "t", "u", "v", "w", "x", "y", "z">>

Digits == {"0", "1", "2", "3", "4", "5", "6", "7", "8", "9"}

IsUpper(c) == \E i \in DOMAIN UpperCaseLetters : UpperCaseLetters[i] = c

IsLower(c) == \E i \in DOMAIN LowerCaseLetters : LowerCaseLetters[i] = c

\* (c >= 65 && c <= 90) || (c >= 97 && c <= 122)
IsLetter(c) == IsUpper(c) \/ IsLower(c)

LowerChar(c) ==
    IF IsUpper(c)
    THEN LowerCaseLetters[CHOOSE i \in DOMAIN UpperCaseLetters : UpperCaseLetters[i] = c]
    ELSE c

ToLowerCase(text) == [i \in DOMAIN text |-> LowerChar(text[i])]

\* the runs of white space of a text reduced to one space each
RECURSIVE CollapseSpaces(_)
CollapseSpaces(text) ==
    IF Len(text) < 2 THEN text
    ELSE IF IsSpace(text[1]) /\ IsSpace(text[2]) THEN CollapseSpaces(Tail(text))
    ELSE <<text[1]>> \o CollapseSpaces(Tail(text))

-----------------------------------------------------------------------------
(* didyoumean (the didyoumean2 package) as formatAddress calls it:         *)
(* caseSensitive false, returnType "first-closest-match", thresholdType    *)
(* "edit-distance", trimSpace true.                                        *)

Min3(a, b, c) == IF a <= b /\ a <= c THEN a ELSE IF b <= c THEN b ELSE c

\* One row of the Levenshtein table: previous is the row of the prefix of the
\* first text that is one character shorter, c the character added to it.
RECURSIVE LevenshteinRow(_, _, _, _)
LevenshteinRow(previous, c, other, row) ==
    IF Len(row) = Len(previous) THEN row
    ELSE LET j == Len(row)
         IN LevenshteinRow(previous, c, other,
                Append(row, Min3(previous[j + 1] + 1,
                                 row[j] + 1,
                                 previous[j] + (IF other[j] = c THEN 0 ELSE 1))))

RECURSIVE LevenshteinFrom(_, _, _, _)
LevenshteinFrom(text, other, index, previous) ==
    IF index > Len(text) THEN previous[Len(previous)]
    ELSE LevenshteinFrom(text, other, index + 1,
             LevenshteinRow(previous, text[index], other, <<index>>))

\* the edit distance of two texts
Levenshtein(text, other) ==
    LevenshteinFrom(text, other, 1, [j \in 1..(Len(other) + 1) |-> j - 1])

Normalize(text) == ToLowerCase(CollapseSpaces(Trim(text)))

\* the index of the first item of matchList at the smallest edit distance from
\* the input, when that distance is within the threshold; 0 (for null) otherwise
didyoumean(input, matchList, threshold) ==
    LET score == [i \in DOMAIN matchList |->
                     Levenshtein(Normalize(input), Normalize(matchList[i]))]
        closest == {i \in DOMAIN matchList :
                       /\ score[i] <= threshold
                       /\ \A j \in DOMAIN matchList : score[i] <= score[j]}
    IN IF closest = {} THEN 0 ELSE CHOOSE i \in closest : \A j \in closest : i <= j

-----------------------------------------------------------------------------
(* formatAddress.  A match is the index of the matched name in its         *)
(* vocabulary, 0 standing for null.                                        *)

\* SuburbSearch with the loop bound index < 6: a window of six tokens is tried.
RECURSIVE SuburbSearchSixTokens(_, _, _)
SuburbSearchSixTokens(tokens, index, suburbName) ==
    LET popped == IF tokens = <<>> THEN <<>> ELSE tokens[Len(tokens)]
        rest == IF tokens = <<>> THEN <<>> ELSE SubSeq(tokens, 1, Len(tokens) - 1)
        name == popped \o (IF index = 0 THEN <<>> ELSE <<" ">> \o suburbName)
        match == didyoumean(name, AllSuburbNames, 2)
    IN IF match = 0 /\ index + 1 < 6
       THEN SuburbSearchSixTokens(rest, index + 1, name)
       ELSE [tokens |-> rest, suburbName |-> name, suburbNameMatch |-> match]

\* for (let index = 0; index < 5 && suburbNameMatch === null; index++)
RECURSIVE SuburbSearch(_, _, _)
SuburbSearch(tokens, index, suburbName) ==
    LET popped == IF tokens = <<>> THEN <<>> ELSE tokens[Len(tokens)]
        rest == IF tokens = <<>> THEN <<>> ELSE SubSeq(tokens, 1, Len(tokens) - 1)
        name == popped \o (IF index = 0 THEN <<>> ELSE <<" ">> \o suburbName)
        match == didyoumean(name, AllSuburbNames, 2)
    IN IF match = 0 /\ index + 1 < 5
       THEN SuburbSearch(rest, index + 1, name)
       ELSE [tokens |-> rest, suburbName |-> name, suburbNameMatch |-> match]

\* /^[0-9]+$/.test(token) || /^[0-9][A-Za-z]$/.test(token) || token.length < 2
IsStreetNumber(token) ==
    \/ token # <<>> /\ \A i \in DOMAIN token : token[i] \in Digits
    \/ Len(token) = 2 /\ token[1] \in Digits /\ IsLetter(token[2])
    \/ Len(token) < 2

\* StreetSearch with the threshold of the suburb search (2 less 1).
RECURSIVE StreetSearchThresholdOne(_, _)
StreetSearchThresholdOne(tokens, removedTokens) ==
    IF tokens = <<>>
    THEN [removedTokens |-> removedTokens, streetName |-> <<>>, streetNameMatch |-> 0]
    ELSE LET streetName == Join(tokens, <<" ">>)
             match == IF IsStreetNumber(tokens[1]) THEN 0
                      ELSE didyoumean(streetName, AllStreetNames, 1)
         IN IF match # 0
            THEN [removedTokens |-> removedTokens, streetName |-> streetName,
                  streetNameMatch |-> match]
            ELSE StreetSearchThresholdOne(Tail(tokens), Append(removedTokens, tokens[1]))

\* while (tokens.length > 0)
RECURSIVE StreetSearch(_, _)
StreetSearch(tokens, removedTokens) ==
    IF tokens = <<>>
    THEN [removedTokens |-> removedTokens, streetName |-> <<>>, streetNameMatch |-> 0]
    ELSE LET streetName == Join(tokens, <<" ">>)
             match == IF IsStreetNumber(tokens[1]) THEN 0
                      ELSE didyoumean(streetName, AllStreetNames, 3)
         IN IF match # 0
            THEN [removedTokens |-> removedTokens, streetName |-> streetName,
                  streetNameMatch |-> match]
            ELSE StreetSearch(Tail(tokens), Append(removedTokens, tokens[1]))

\* GivesUp that goes on with no token left before the suburb.
GivesUpWithoutMatch(suburb) == suburb.suburbNameMatch = 0

\* if (suburbNameMatch === null || tokens.length === 0)
GivesUp(suburb) == suburb.suburbNameMatch = 0 \/ suburb.tokens = <<>>

formatAddress(addr) ==
    LET trimmed == Trim(addr)
        unformatted == [text |-> trimmed, hasStreet |-> FALSE,
                        hasRecognizedStreet |-> FALSE, hasRecognizedSuburb |-> FALSE]
        suburb == SuburbSearch(SplitSpaces(trimmed), 0, <<>>)
    IN IF GivesUp(suburb)
       THEN unformatted
       ELSE LET suburbNameMatch == AllSuburbNames[suburb.suburbNameMatch]
                street == StreetSearch(suburb.tokens, <<>>)
                removed == Join(street.removedTokens, <<" ">>)
            IN IF street.streetNameMatch = 0
               THEN [unformatted EXCEPT
                        !.hasRecognizedSuburb = TRUE,
                        !.hasStreet = Len(suburb.tokens) > 0,
                        !.text = IF suburbNameMatch # suburb.suburbName
                                 THEN Trim(removed \o <<" ">> \o suburbNameMatch)
                                 ELSE @]
               ELSE LET streetNameMatch == AllStreetNames[street.streetNameMatch]
                    IN [unformatted EXCEPT
                        !.hasRecognizedSuburb = TRUE,
                        !.hasStreet = Len(suburb.tokens) > 0,
                        !.hasRecognizedStreet = TRUE,
                        !.text = IF streetNameMatch # street.streetName
                                    \/ suburbNameMatch # suburb.suburbName
                                 THEN Trim(removed \o <<" ">> \o streetNameMatch)
                                         \o <<" ">> \o suburbNameMatch
                                 ELSE @]

-----------------------------------------------------------------------------
(* formatReason.                                                           *)

\* the one-character ligature of f and i
Ligature == "fi-ligature"

\* reason.replace(/[ligature]/g, "fi"): the ligature becomes the two letters
RECURSIVE ReplaceLigature(_)
ReplaceLigature(reason) ==
    IF reason = <<>> THEN <<>>
    ELSE (IF Head(reason) = Ligature THEN <<"f", "i">> ELSE <<Head(reason)>>)
             \o ReplaceLigature(Tail(reason))

\* SpellingCorrections = {}: the properties that the table inherits from
\* Object.prototype and whose names are runs of letters.  Each is a function;
\* added to a string it gives the text of the function, held here as one
\* character.
InheritedProperties ==
    <<<<<<"c", "o", "n", "s", "t", "r", "u", "c", "t", "o", "r">>,
        <<"function Object() { [native code] }">>>>,
      <<<<"h", "a", "s", "O", "w", "n", "P", "r", "o", "p", "e", "r", "t", "y">>,
        <<"function hasOwnProperty() { [native code] }">>>>,
      <<<<"i", "s", "P", "r", "o", "t", "o", "t", "y", "p", "e", "O", "f">>,
        <<"function isPrototypeOf() { [native code] }">>>>,
      <<<<"p", "r", "o", "p", "e", "r", "t", "y", "I", "s", "E", "n", "u", "m", "e", "r", "a", "b", "l", "e">>,
        <<"function propertyIsEnumerable() { [native code] }">>>>,
      <<<<"t", "o", "L", "o", "c", "a", "l", "e", "S", "t", "r", "i", "n", "g">>,
        <<"function toLocaleString() { [native code] }">>>>,
      <<<<"t", "o", "S", "t", "r", "i", "n", "g">>,
        <<"function toString() { [native code] }">>>>,
      <<<<"v", "a", "l", "u", "e", "O", "f">>,
        <<"function valueOf() { [native code] }">>>>>>

\* SpellingCorrections[run]: the correction last stored under the run, else
\* the inherited property of that name, or the run itself when the lookup
\* gives undefined
Corrected(run) ==
    LET hits == {i \in DOMAIN SpellingCorrections : SpellingCorrections[i][1] = run}
        inherited == {i \in DOMAIN InheritedProperties : InheritedProperties[i][1] = run}
    IN IF hits # {}
       THEN SpellingCorrections[CHOOSE i \in hits : \A j \in hits : j <= i][2]
       ELSE IF inherited # {}
       THEN InheritedProperties[CHOOSE i \in inherited : TRUE][2]
       ELSE run

\* The loop over index: previousIndex is the start of the current run
\* (0 for null), the run ends where isLetter changes or the text ends.
RECURSIVE FormatRuns(_, _, _, _)
FormatRuns(reason, index, previousIndex, formattedReason) ==
    IF index > Len(reason) + 1 THEN formattedReason
    ELSE LET atEnd == index = Len(reason) + 1
             boundary == \/ atEnd
                         \/ previousIndex = 0
                         \/ IsLetter(reason[index]) # IsLetter(reason[index - 1])
         IN IF boundary
            THEN FormatRuns(reason, index + 1, index,
                     IF previousIndex = 0 THEN formattedReason
                     ELSE formattedReason
                              \o Corrected(SubSeq(reason, previousIndex, index - 1)))
            ELSE FormatRuns(reason, index + 1, previousIndex, formattedReason)

formatReason(reason) == FormatRuns(ReplaceLigature(reason), 1, 0, <<>>)

-----------------------------------------------------------------------------
(* parseLines: the assembly of one row from one line.                      *)

\* AssembleWords that sets the y of a cell only while it is null.
RECURSIVE AssembleWordsFirstY(_, _, _, _, _, _)
AssembleWordsFirstY(row, cellIndex, line, index, cols, sf) ==
    IF index > Len(line) THEN row
    ELSE LET word == line[index]
             columnIndex == ClosestColumn(cols, word.bounds.x, sf)
             current == IF columnIndex # 0 THEN columnIndex ELSE cellIndex
             placed == IF columnIndex # 0 /\ row[columnIndex].y = NullY
                       THEN [row EXCEPT ![columnIndex].y = word.bounds.y]
                       ELSE row
             added == IF current # 0
                      THEN [placed EXCEPT
                               ![current].texts = Append(@, word.text),
                               ![current].confidences = Append(@, word.confidence)]
                      ELSE placed
         IN AssembleWordsFirstY(added, current, line, index + 1, cols, sf)

\* for (let word of line): cellIndex is the current cell, 0 for null
RECURSIVE AssembleWords(_, _, _, _, _, _)
AssembleWords(row, cellIndex, line, index, cols, sf) ==
    IF index > Len(line) THEN row
    ELSE LET word == line[index]
             columnIndex == ClosestColumn(cols, word.bounds.x, sf)
             current == IF columnIndex # 0 THEN columnIndex ELSE cellIndex
             placed == IF columnIndex # 0
                       THEN [row EXCEPT ![columnIndex].y = word.bounds.y]
                       ELSE row
             added == IF current # 0
                      THEN [placed EXCEPT
                               ![current].texts = Append(@, word.text),
                               ![current].confidences = Append(@, word.confidence)]
                      ELSE placed
         IN AssembleWords(added, current, line, index + 1, cols, sf)

RECURSIVE Sum(_)
Sum(numbers) == IF numbers = <<>> THEN 0 ELSE Head(numbers) + Sum(Tail(numbers))

\* the average confidence and the joined text of the cell of one column
FinishCell(cell, columnIndex) ==
    [cell EXCEPT
        !.confidence = Confidence(Sum(cell.confidences), Len(cell.confidences)),
        !.text = Trim(Join(cell.texts, IF columnIndex <= 2 THEN <<>> ELSE <<" ">>))]

\* AssembleRow with the first cell as the current cell of the first word.
AssembleRowFromFirstCell(line, cols, sf) ==
    LET filled == AssembleWords([c \in DOMAIN cols |-> EmptyCell], 1, line, 1, cols, sf)
    IN [c \in DOMAIN cols |-> FinishCell(filled[c], c)]

\* let row = columns.map(...); let cell = null; for (let word of line) ...
AssembleRow(line, cols, sf) ==
    LET filled == AssembleWords([c \in DOMAIN cols |-> EmptyCell], 0, line, 1, cols, sf)
    IN [c \in DOMAIN cols |-> FinishCell(filled[c], c)]

\* PassesGate that asks for a slash in the received date and in the
\* application number.
PassesGateBothSlashes(row) ==
    /\ \A c \in DOMAIN row : ~ConfidenceBelow(row[c].confidence, 60)
    /\ HasSlash(row[1].text) /\ HasSlash(row[2].text)

\* the test that lets a row into the rows to be grouped
PassesGate(row) ==
    /\ \A c \in DOMAIN row : ~ConfidenceBelow(row[c].confidence, 60)
    /\ HasSlash(row[1].text) \/ HasSlash(row[2].text)

\* for (let line of lines) ... rows.push(row)
RECURSIVE AssembleRows(_, _, _)
AssembleRows(lns, cols, sf) ==
    IF lns = <<>> THEN <<>>
    ELSE LET row == AssembleRow(Head(lns), cols, sf)
         IN (IF PassesGate(row) THEN <<row>> ELSE <<>>)
                \o AssembleRows(Tail(lns), cols, sf)

-----------------------------------------------------------------------------
(* parseLines: the two groupings.                                          *)

\* a y used in arithmetic: null counts as 0
NumY(y) == IF y = NullY THEN 0 ELSE y

\* groups.find(...): the first of the indexes that satisfy the test, 0 when
\* there is none
FirstGroup(hits) ==
    IF hits = {} THEN 0 ELSE CHOOSE i \in hits : \A j \in hits : i <= j

\* GroupByY with <= in the place of <: a row at exactly LineAlignment *
\* scaleFactor from a group joins it.
RECURSIVE GroupByYInclusive(_, _, _)
GroupByYInclusive(grps, rws, sf) ==
    IF rws = <<>> THEN grps
    ELSE LET row == Head(rws)
             Near(group) == Abs(NumY(group.y) - NumY(row[1].y)) <= LineAlignment * sf
             found == FirstGroup({i \in DOMAIN grps : Near(grps[i])})
         IN GroupByYInclusive(IF found = 0
                              THEN Append(grps, [y |-> row[1].y, rows |-> <<row>>])
                              ELSE [grps EXCEPT ![found].rows = Append(@, row)],
                              Tail(rws), sf)

\* Group the rows by Y co-ordinate.
RECURSIVE GroupByY(_, _, _)
GroupByY(grps, rws, sf) ==
    IF rws = <<>> THEN grps
    ELSE LET row == Head(rws)
             Near(group) == Abs(NumY(group.y) - NumY(row[1].y)) < LineAlignment * sf
             found == FirstGroup({i \in DOMAIN grps : Near(grps[i])})
         IN GroupByY(IF found = 0
                     THEN Append(grps, [y |-> row[1].y, rows |-> <<row>>])
                     ELSE [grps EXCEPT ![found].rows = Append(@, row)],
                     Tail(rws), sf)

\* SameNumber with the index of the received date column.
SameNumberWrongColumn(group, row) == group.applicationNumber = row[1].text

\* group.applicationNumber === row[1].text
SameNumber(group, row) == group.applicationNumber = row[2].text

\* Group together rows with the same application number.
RECURSIVE GroupByNumber(_, _)
GroupByNumber(grps, rws) ==
    IF rws = <<>> THEN grps
    ELSE LET row == Head(rws)
             Same(group) == SameNumber(group, row)
             found == FirstGroup({i \in DOMAIN grps : Same(grps[i])})
         IN GroupByNumber(IF found = 0
                          THEN Append(grps, [applicationNumber |-> row[2].text,
                                             rows |-> <<row>>])
                          ELSE [grps EXCEPT ![found].rows = Append(@, row)],
                          Tail(rws))

\* for (let group of groups) rows.push(mergeRows(group.rows))
MergeGroups(grps) == [g \in DOMAIN grps |-> mergeRows(grps[g].rows)]

-----------------------------------------------------------------------------
(* Values left in the variables a specification does not use.              *)

NoVocabulary ==
    /\ AllStreetNames = <<>>
    /\ AllSuburbNames = <<>>
    /\ SpellingCorrections = <<>>

NoLines ==
    /\ scaleFactor = ScaleFactor
    /\ lines = <<>>
    /\ columns = NullColumns

NoRows ==
    /\ assembled = <<>>
    /\ rows = <<>>
    /\ converted = 0
    /\ groups = <<>>

NoApplications ==
    /\ developmentApplications = <<>>
    /\ pending = <<>>

NoStore ==
    /\ database = <<>>
    /\ outcome = "none"

NoMerge ==
    /\ rowsArgument = <<>>
    /\ mergedRow = <<>>

NoAddress ==
    /\ address = <<>>
    /\ formattedAddress = <<>>

NoRun ==
    /\ images = <<>>
    /\ imageIndex = 0
    /\ sectionY = 0
    /\ inFlight = 0
    /\ session = "none"
    /\ report = "none"

NoLocals ==
    /\ totalCount = 0
    /\ jimpImage = <<>>
    /\ sectionHeight = 0
    /\ removals = 0
    /\ bands = <<>>
    /\ reasonArgument = <<>>
    /\ returnedReason = <<>>

-----------------------------------------------------------------------------
(* mergeRows on its own: buckets of up to MaxBucket rows.                  *)

\* a cell built from one word
Cell(y, text, confidence) ==
    [y |-> y, texts |-> <<text>>, text |-> text, confidences |-> <<confidence>>,
     confidence |-> Confidence(confidence, 1)]

Text077l == <<"0", "7", "7", "/", "5", "8", "6", "l", "2", "0", "1", "8">>

Text077 == <<"0", "7", "7", "/", "5", "8", "6", "/", "2", "0", "1", "8">>

Text060 == <<"0", "6", "0", "/", "3", "3", "1", "/", "2", "0", "1", "8">>

Text06O == <<"0", "6", "O", "/", "3", "3", "1", "/", "2", "0", "1", "8">>

Text060NoSlash == <<"0", "6", "0", "3", "3", "1", "2", "0", "1", "8">>

Text077OneSlash == <<"0", "7", "7", "5", "8", "6", "/", "2", "0", "1", "8">>

Date29 == <<"2", "9", "/", "0", "1", "/", "2", "0", "1", "8">>

Date29OneSlash == <<"2", "9", "/", "0", "1", "2", "0", "1", "8">>

Date29NoSlash == <<"2", "9", "0", "1", "2", "0", "1", "8">>

Date30 == <<"3", "0", "/", "0", "1", "/", "2", "0", "1", "8">>

Date2Slash9 == <<"2", "/", "9", "/", "0", "1", "/", "2", "0", "1", "8">>

\* candidate cells of the application number column: text and confidence
NumberCandidates ==
    <<<<Text077l, 91>>, <<Text077, 70>>, <<Text060, 80>>, <<Text06O, 92>>,
      <<Text060NoSlash, 95>>, <<Text077OneSlash, 75>>>>

\* candidate cells of the received date column
DateCandidates ==
    <<<<Date29, 85>>, <<Date29OneSlash, 95>>, <<Date29NoSlash, 60>>,
      <<Date30, 64>>, <<Date2Slash9, 99>>, <<Date29, 90>>>>

\* candidate confidences of the reason, applicant and address columns
OtherCandidates == <<<<70, 80, 90>>, <<90, 80, 70>>>>

\* the row of a bucket: candidate i in the first two columns, candidate q in
\* the other three
MergeRow(i, q) ==
    <<Cell(100 + i, DateCandidates[i][1], DateCandidates[i][2]),
      Cell(100 + i, NumberCandidates[i][1], NumberCandidates[i][2]),
      Cell(100 + i, <<"r", LowerCaseLetters[i]>>, OtherCandidates[q][1]),
      Cell(100 + i, <<"p", LowerCaseLetters[i]>>, OtherCandidates[q][2]),
      Cell(100 + i, <<"a", LowerCaseLetters[i]>>, OtherCandidates[q][3])>>

MergeRowSet ==
    {MergeRow(i, q) : i \in DOMAIN NumberCandidates, q \in DOMAIN OtherCandidates}

InitMerge ==
    /\ pc = "mergeRows"
    /\ rowsArgument \in SeqsUpTo(MergeRowSet, MaxBucket)
    /\ mergedRow = <<>>
    /\ NoVocabulary /\ NoLines /\ NoRows /\ NoApplications /\ NoStore /\ NoAddress
    /\ NoRun /\ NoLocals

\* A call mergeRows(rows).  rowsArgument keeps the rows as they were passed;
\* the row returned is the object rows[0], overwritten in place.
MergeRows ==
    /\ pc = "mergeRows"
    /\ mergedRow' = mergeRows(rowsArgument)
    /\ pc' = "merged"
    /\ UNCHANGED <<localVars, scaleFactor, lines, columns, assembled, rows, converted, groups,
                   developmentApplications, pending, database, outcome,
                   rowsArgument, address, formattedAddress, AllStreetNames,
                   AllSuburbNames, SpellingCorrections, runVars>>

\* A second call, on the bucket that holds only the merged row (what the
\* second grouping stage does with a row whose number no other row shares).
MergeMergedRow ==
    /\ pc = "merged"
    /\ mergedRow' = mergeRows(<<mergedRow>>)
    /\ pc' = "remerged"
    /\ UNCHANGED <<localVars, scaleFactor, lines, columns, assembled, rows, converted, groups,
                   developmentApplications, pending, database, outcome,
                   rowsArgument, address, formattedAddress, AllStreetNames,
                   AllSuburbNames, SpellingCorrections, runVars>>

NextMerge == MergeRows \/ MergeMergedRow

SpecMerge == InitMerge /\ [][NextMerge]_vars

-----------------------------------------------------------------------------
(* findColumns on its own: up to MaxColumnLines lines of words.            *)

\* the x co-ordinates at which the words of these lines start
ColumnXs == {0, 30, 38, 60, 90, 120}

ScaleFactors == {1, 2}

\* the members of a set of numbers in ascending order
RECURSIVE Ascending(_)
Ascending(xs) ==
    IF xs = {} THEN <<>>
    ELSE LET least == CHOOSE x \in xs : \A y \in xs : x <= y
         IN <<least>> \o Ascending(xs \ {least})

\* a line with one word, 6 pixels wide, at each x of xs
ColumnLine(xs) ==
    LET ordered == Ascending(xs)
    IN [i \in DOMAIN ordered |-> Word(<<"w">>, 90, ordered[i], 0, 6)]

ColumnLineSet ==
    {ColumnLine(xs) : xs \in {s \in SUBSET ColumnXs : Cardinality(s) \in {1, 4, 5, 6}}}

InitColumns ==
    /\ pc = "columns"
    /\ scaleFactor \in ScaleFactors
    /\ lines \in SeqsUpTo(ColumnLineSet, MaxColumnLines)
    /\ columns = NullColumns
    /\ NoVocabulary /\ NoRows /\ NoApplications /\ NoStore /\ NoMerge /\ NoAddress
    /\ NoRun /\ NoLocals

\* A call findColumns(lines, scaleFactor).
FindColumns ==
    /\ pc = "columns"
    /\ columns' = findColumns(lines, scaleFactor)
    /\ pc' = "located"
    /\ UNCHANGED <<localVars, assembled, scaleFactor, lines, rows, converted, groups,
                   developmentApplications, pending, database, outcome,
                   rowsArgument, mergedRow, address, formattedAddress,
                   AllStreetNames, AllSuburbNames, SpellingCorrections, runVars>>

NextColumns == FindColumns

SpecColumns == InitColumns /\ [][NextColumns]_vars

-----------------------------------------------------------------------------
(* The end of one pass of the loop of findColumns on its own: the columns  *)
(* counted at one gap threshold, each with a count of up to                *)
(* MaxClusterCount, are filtered and sorted.                               *)

\* the x co-ordinates of the counted columns: no two are within
\* ColumnAlignment * ScaleFactor of each other
ClusterXs == {0, 100, 200, 300, 400, 500}

Reverse(seq) == [i \in DOMAIN seq |-> seq[Len(seq) + 1 - i]]

\* the orders in which columns are counted: left to right, or right to left
ClusterOrders ==
    UNION {{Ascending(xs), Reverse(Ascending(xs))} : xs \in (SUBSET ClusterXs) \ {{}}}

ClusterLists ==
    UNION {{[i \in DOMAIN xs |-> [x |-> xs[i], count |-> counts[i]]] :
               counts \in [DOMAIN xs -> 1..MaxClusterCount]} :
           xs \in ClusterOrders}

InitFilter ==
    /\ pc = "found"
    /\ scaleFactor = ScaleFactor
    /\ lines = <<>>
    /\ columns \in ClusterLists
    /\ NoVocabulary /\ NoRows /\ NoApplications /\ NoStore /\ NoMerge /\ NoAddress
    /\ NoRun /\ NoLocals

\* "Ignore columns that have low counts": the total is taken, the columns
\* are filtered and sorted.
FilterColumns ==
    /\ pc = "found"
    /\ totalCount' = TotalCount(columns)
    /\ columns' = SortByX(FilterLowCounts(columns, totalCount'))
    /\ pc' = "filtered"
    /\ UNCHANGED <<scaleFactor, lines, assembled, rows, converted, groups,
                   developmentApplications, pending, database, outcome,
                   rowsArgument, mergedRow, address, formattedAddress,
                   AllStreetNames, AllSuburbNames, SpellingCorrections, runVars,
                   jimpImage, sectionHeight, removals, bands, reasonArgument,
                   returnedReason>>

NextFilter == FilterColumns

SpecFilter == InitFilter /\ [][NextFilter]_vars

\* C21 as claimed: at a gap threshold findColumns keeps exactly the columns
\* whose count is not below (total count / 5) / 2, a column whose count
\* equals that value included.
C21_KeepsCountsAtThreshold ==
    [][pc = "found" =>
          /\ \A i \in DOMAIN columns :
                (\E j \in DOMAIN columns' : columns'[j] = columns[i])
                    <=> ~(columns[i].count * 10 < TotalCount(columns))
          /\ \A j \in DOMAIN columns' : \E i \in DOMAIN columns : columns[i] = columns'[j]
      ]_vars

\* C21: at a gap threshold findColumns keeps exactly the columns whose count
\* is above (total count / 5) / 2 and discards every other column, a column
\* whose count equals that value included.
C21_KeepsCountsAboveThreshold ==
    [][pc = "found" =>
          /\ \A i \in DOMAIN columns :
                (\E j \in DOMAIN columns' : columns'[j] = columns[i])
                    <=> columns[i].count * 10 > TotalCount(columns)
          /\ \A j \in DOMAIN columns' : \E i \in DOMAIN columns : columns[i] = columns'[j]
      ]_vars

\* of a total count of 10 one column with a count of 1, which is
\* (10 / 5) / 2, was discarded
C21_Witness ==
    /\ pc = "filtered"
    /\ totalCount = 10
    /\ TotalCount(columns) = 9

-----------------------------------------------------------------------------
(* parseLines and the insertion loop of parsePdf, step by step.            *)

\* AddressAccepted that only asks for some address text.
AddressAcceptedAnyText(formatted) == formatted.text # <<>>

\* formattedAddress.hasStreet && formattedAddress.hasRecognizedSuburb
AddressAccepted(formatted) ==
    formatted.hasStreet /\ formatted.hasRecognizedSuburb

\* NumberAccepted without the confidence test.
NumberAcceptedAnyConfidence(row) == row[2].text # <<>>

\* row[1].text !== "" && row[1].confidence >= 70
NumberAccepted(row) ==
    row[2].text # <<>> /\ ConfidenceAtLeast(row[2].confidence, 70)

\* row[4].confidence >= 75 && row[0].y !== null
RowAccepted(row) ==
    ConfidenceAtLeast(row[5].confidence, 75) /\ row[1].y # NullY

\* the development application made of a row (the comment URL and the two
\* dates, which nothing reads before the insert, are left out)
Application(row, formatted, pdfUrl) ==
    [applicationNumber |-> row[2].text,
     address |-> formatted.text,
     reason |-> formatReason(row[3].text),
     informationUrl |-> pdfUrl]

\* the row of [data] that "insert or ignore" writes for an application
DataRow(application) ==
    [address |-> application.address,
     description |-> application.reason,
     info_url |-> application.informationUrl]

\* InsertOrIgnore as "insert or replace": the new row takes the key over.
InsertOrReplace(data, application) ==
    (application.applicationNumber :> DataRow(application)) @@ data

\* [data] after "insert or ignore into [data] values (...)": council_reference
\* is the primary key, a row whose key is present is ignored
InsertOrIgnore(data, application) ==
    IF application.applicationNumber \in DOMAIN data THEN data
    ELSE data @@ (application.applicationNumber :> DataRow(application))

\* AfterFindColumns without the test for null: columns.map(...) throws on
\* null and the rejection leaves parseLines, parseImage, parsePdf and main.
AfterFindColumnsNoNullTest(cols) ==
    IF cols = NullColumns THEN "aborted" ELSE "assemble"

\* if (columns === null) return []: parsePdf goes on with its loop over the
\* (zero) applications returned; otherwise parseLines goes on
AfterFindColumns(cols) ==
    IF cols = NullColumns THEN "insert" ELSE "assemble"

\* let columns = findColumns(lines, scaleFactor); if (columns === null) return [];
LocateColumns ==
    /\ pc = "findColumns"
    /\ columns' = findColumns(lines, scaleFactor)
    /\ pc' = AfterFindColumns(columns')
    /\ developmentApplications' =
          IF columns' = NullColumns THEN <<>> ELSE developmentApplications
    /\ pending' = IF columns' = NullColumns THEN <<>> ELSE pending
    /\ UNCHANGED <<localVars, assembled, scaleFactor, lines, rows, converted, groups,
                   database, outcome,
                   rowsArgument, mergedRow, address, formattedAddress,
                   AllStreetNames, AllSuburbNames, SpellingCorrections, runVars>>

\* for (let line of lines) { ... }
AssembleLines ==
    /\ pc = "assemble"
    /\ assembled' = [i \in DOMAIN lines |-> AssembleRow(lines[i], columns, scaleFactor)]
    /\ rows' = AssembleRows(lines, columns, scaleFactor)
    /\ pc' = "groupByY"
    /\ UNCHANGED <<localVars, scaleFactor, lines, columns, converted, groups,
                   developmentApplications, pending, database, outcome,
                   rowsArgument, mergedRow, address, formattedAddress,
                   AllStreetNames, AllSuburbNames, SpellingCorrections, runVars>>

\* Group the rows by Y co-ordinate.
GroupRowsByY ==
    /\ pc = "groupByY"
    /\ groups' = GroupByY(<<>>, rows, scaleFactor)
    /\ pc' = "mergeByY"
    /\ UNCHANGED <<localVars, scaleFactor, lines, columns, assembled, rows, converted,
                   developmentApplications, pending, database, outcome,
                   rowsArgument, mergedRow, address, formattedAddress,
                   AllStreetNames, AllSuburbNames, SpellingCorrections, runVars>>

\* rows = []; for (let group of groups) rows.push(mergeRows(group.rows));
MergeByY ==
    /\ pc = "mergeByY"
    /\ rows' = MergeGroups(groups)
    /\ pc' = "groupByNumber"
    /\ UNCHANGED <<localVars, scaleFactor, lines, columns, assembled, converted, groups,
                   developmentApplications, pending, database, outcome,
                   rowsArgument, mergedRow, address, formattedAddress,
                   AllStreetNames, AllSuburbNames, SpellingCorrections, runVars>>

\* Group together rows with the same application number.
GroupRowsByNumber ==
    /\ pc = "groupByNumber"
    /\ groups' = GroupByNumber(<<>>, rows)
    /\ pc' = "mergeByNumber"
    /\ UNCHANGED <<localVars, scaleFactor, lines, columns, assembled, rows, converted,
                   developmentApplications, pending, database, outcome,
                   rowsArgument, mergedRow, address, formattedAddress,
                   AllStreetNames, AllSuburbNames, SpellingCorrections, runVars>>

\* rows = []; for (let group of groups) rows.push(mergeRows(group.rows));
MergeByNumber ==
    /\ pc = "mergeByNumber"
    /\ rows' = MergeGroups(groups)
    /\ converted' = 0
    /\ pc' = "convert"
    /\ UNCHANGED <<localVars, scaleFactor, lines, columns, assembled, groups,
                   developmentApplications, pending, database, outcome,
                   rowsArgument, mergedRow, address, formattedAddress,
                   AllStreetNames, AllSuburbNames, SpellingCorrections, runVars>>

\* One pass of "for (let row of rows)": the row after the converted ones.
ConvertRow ==
    /\ pc = "convert"
    /\ converted < Len(rows)
    /\ LET row == rows[converted + 1]
       IN /\ address' = row[5].text
          /\ formattedAddress' = formatAddress(row[5].text)
          /\ developmentApplications' =
                IF AddressAccepted(formattedAddress') /\ NumberAccepted(row)
                      /\ RowAccepted(row)
                THEN Append(developmentApplications,
                            Application(row, formattedAddress',
                                        images[imageIndex].pdfUrl))
                ELSE developmentApplications
    /\ converted' = converted + 1
    /\ UNCHANGED <<localVars, pc, scaleFactor, lines, columns, assembled, rows, groups, pending,
                   database, outcome, rowsArgument, mergedRow, AllStreetNames,
                   AllSuburbNames, SpellingCorrections, runVars>>

\* return developmentApplications; parsePdf starts its loop over them.
ReturnApplications ==
    /\ pc = "convert"
    /\ converted = Len(rows)
    /\ pending' = developmentApplications
    /\ pc' = "insert"
    /\ UNCHANGED <<localVars, scaleFactor, lines, columns, assembled, rows, converted, groups,
                   developmentApplications, database, outcome, rowsArgument,
                   mergedRow, address, formattedAddress, AllStreetNames,
                   AllSuburbNames, SpellingCorrections, runVars>>

\* await insertRow(database, developmentApplication), the statement runs
\* without error and the promise resolves.
InsertRow ==
    /\ pc = "insert"
    /\ pending # <<>>
    /\ database' = InsertOrIgnore(database, Head(pending))
    /\ outcome' = "resolved"
    /\ pending' = Tail(pending)
    /\ UNCHANGED <<localVars, pc, scaleFactor, lines, columns, assembled, rows, converted, groups,
                   developmentApplications, rowsArgument, mergedRow, address,
                   formattedAddress, AllStreetNames, AllSuburbNames,
                   SpellingCorrections, runVars>>

\* AfterRejection with the rejection swallowed: the loop goes on.
AfterRejectionSwallowed == "insert"

\* where the run is after "await insertRow(...)" has thrown: no caller up to
\* main catches, so parsePdf and main are left
AfterRejection == "aborted"

\* await insertRow(database, developmentApplication), the statement fails:
\* the promise rejects, the rejection leaves parsePdf and main and reaches
\* main().catch(error => console.error(error)).
InsertRowFails ==
    /\ pc = "insert"
    /\ pending # <<>>
    /\ outcome' = "rejected"
    /\ pc' = AfterRejection
    /\ report' = IF pc' = "aborted" THEN "error" ELSE report
    /\ UNCHANGED <<localVars, scaleFactor, lines, columns, assembled, rows, converted, groups,
                   developmentApplications, pending, database, rowsArgument,
                   mergedRow, address, formattedAddress, AllStreetNames,
                   AllSuburbNames, SpellingCorrections, images, imageIndex,
                   sectionY, inFlight, session>>

\* The loop over the applications of the image has ended.  With an image
\* left (in the page, in a later page or in a later document) parseImage is
\* called for it, with its own lines and the locals of its parseLines call;
\* after the last image main returns and its caller logs "Complete.".
ImageDone ==
    /\ pc = "insert"
    /\ pending = <<>>
    /\ IF imageIndex < Len(images)
       THEN /\ imageIndex' = imageIndex + 1
            /\ sectionY' = 0
            /\ lines' = <<>>
            /\ columns' = NullColumns
            /\ assembled' = <<>>
            /\ rows' = <<>>
            /\ converted' = 0
            /\ groups' = <<>>
            /\ developmentApplications' = <<>>
            /\ removals' = 0
            /\ bands' = <<>>
            /\ pc' = "section"
            /\ UNCHANGED report
       ELSE /\ pc' = "done"
            /\ report' = "Complete."
            /\ UNCHANGED <<imageIndex, sectionY, lines, columns, assembled, rows,
                           converted, groups, developmentApplications, removals,
                           bands>>
    /\ UNCHANGED <<totalCount, jimpImage, sectionHeight, reasonArgument,
                   returnedReason, scaleFactor, pending, database, outcome,
                   rowsArgument, mergedRow, address, formattedAddress,
                   AllStreetNames, AllSuburbNames, SpellingCorrections,
                   images, inFlight, session>>

-----------------------------------------------------------------------------
(* The lines of one image.  Words are placed in the scaled co-ordinates of *)
(* scale factor 5: the columns start at x = 100, 300, 500, 700 and 900.    *)

WordCarport == <<"C", "a", "r", "p", "o", "r", "t">>

WordExistinq == <<"E", "x", "i", "s", "t", "i", "n", "q">>

WordExisting == <<"E", "x", "i", "s", "t", "i", "n", "g">>

WordSmith == <<"S", "m", "i", "t", "h">>

Word6 == <<"6">>

WordKing == <<"K", "i", "n", "g">>

WordKimg == <<"K", "i", "m", "g">>

WordSt == <<"S", "t">>

WordUnknown == <<"U", "n", "k", "n", "o", "w", "n">>

WordWay == <<"W", "a", "y">>

WordProspect == <<"P", "R", "O", "S", "P", "E", "C", "T">>

WordNowhere == <<"N", "O", "W", "H", "E", "R", "E">>

WordStray == <<"x">>

NameKingSt == <<"K", "i", "n", "g", " ", "S", "t">>

NameMainRd == <<"M", "a", "i", "n", " ", "R", "d">>

NameOvingham == <<"O", "V", "I", "N", "G", "H", "A", "M">>

StreetNames == <<NameKingSt, NameMainRd>>

SuburbNames == <<NameOvingham, WordProspect>>

Corrections == <<<<WordExistinq, WordExisting>>>>

\* the words of an address cell: the first starts the column, the others
\* follow it at gaps too narrow to start a column
RECURSIVE AddressWords(_, _, _, _)
AddressWords(tokens, confidence, x, y) ==
    IF tokens = <<>> THEN <<>>
    ELSE <<Word(Head(tokens), confidence, x, y, 50)>>
             \o AddressWords(Tail(tokens), confidence, x + 60, y)

\* a line with one word in each of the first four columns and an address
TableLine(y, date, dateConfidence, number, numberConfidence, reason, tokens,
          addressConfidence) ==
    <<Word(date, dateConfidence, 100, y, 100),
      Word(number, numberConfidence, 300, y, 100),
      Word(reason, 90, 500, y, 100),
      Word(WordSmith, 90, 700, y, 100)>>
        \o AddressWords(tokens, addressConfidence, 900, y)

KingSt == <<Word6, WordKing, WordSt, WordProspect>>

\* band A and band B capture the same physical row
LineBandA == TableLine(100, Date29, 90, Text077l, 91, WordCarport, KingSt, 90)

LineBandB == TableLine(110, Date29, 88, Text077, 70, WordCarport, KingSt, 80)

\* a row further down with the application number of band B
LineRepeat ==
    TableLine(300, Date29, 90, Text077, 91, WordExistinq,
              <<Word6, WordKimg, WordSt, WordProspect>>, 95)

\* application number at confidence 65, everything else at 99
LineLowNumber == TableLine(500, Date30, 99, Text060, 65, WordCarport, KingSt, 99)

\* the same physical row with the address at confidence 70
LineLowAddress == TableLine(510, Date30, 90, Text060, 80, WordCarport, KingSt, 70)

\* application number without any "/"
LineNoSlash == TableLine(700, Date30, 90, Text060NoSlash, 90, WordCarport, KingSt, 90)

LineUnknownStreet ==
    TableLine(900, Date30, 90, Text06O, 92, WordCarport,
              <<Word6, WordUnknown, WordWay, WordProspect>>, 90)

LineUnknownSuburb ==
    TableLine(1100, Date30, 90, Text060, 80, WordCarport,
              <<Word6, WordKing, WordSt, WordNowhere>>, 90)

\* received date at confidence 50
LineLowDate == TableLine(120, Date29, 50, Text077, 95, WordCarport, KingSt, 90)

\* a line that ends after the application number
LineShort == <<Word(Date29, 90, 100, 300, 100), Word(Text077, 90, 300, 300, 100)>>

\* a line that starts with a word left of which no column starts
LineStray ==
    <<Word(WordStray, 90, 0, 700, 20)>>
        \o TableLine(700, Date30, 90, Text060, 85, WordCarport, KingSt, 90)

\* a line whose street number is a narrow word 3 pixels above the words
\* that follow it: "King" starts 30 pixels right of the address column
LineUneven ==
    <<Word(Date30, 90, 100, 1300, 100),
      Word(Text060, 90, 300, 1300, 100),
      Word(WordCarport, 90, 500, 1300, 100),
      Word(WordSmith, 90, 700, 1300, 100),
      Word(Word6, 90, 900, 1297, 20),
      Word(WordKing, 90, 930, 1300, 50),
      Word(WordSt, 90, 990, 1300, 50),
      Word(WordProspect, 90, 1050, 1300, 50)>>

\* neither the received date nor the application number has a "/"
LineNoSlashes ==
    TableLine(1500, Date29NoSlash, 90, Text060NoSlash, 90, WordCarport, KingSt, 90)

\* received date at confidence 60
LineAtCutoff == TableLine(1700, Date30, 60, Text060, 90, WordCarport, KingSt, 90)

LineCatalogue ==
    {LineBandA, LineBandB, LineRepeat, LineLowNumber, LineLowAddress,
     LineNoSlash, LineUnknownStreet, LineUnknownSuburb, LineLowDate, LineShort,
     LineStray, LineUneven, LineNoSlashes, LineAtCutoff}

Vocabulary ==
    /\ AllStreetNames = StreetNames
    /\ AllSuburbNames = SuburbNames
    /\ SpellingCorrections = Corrections

\* the width of the images, in pixels
ImageWidth == 100

\* the rows of an image of this height without a dark pixel
Blank(height) == [y \in 1..height |-> 0]

\* the image of one section in which OCR found the lines
OneSectionImage(lns) ==
    [pdfUrl |-> "pdfUrl", pageNumber |-> 1, height |-> SectionStep,
     width |-> ImageWidth, data |-> Blank(SectionStep), results |-> <<lns>>]

\* parseImage has examined the one section of the one image of the run and
\* calls parseLines
Init ==
    /\ pc = "findColumns"
    /\ scaleFactor = ScaleFactor
    /\ lines \in SeqsUpTo(LineCatalogue, MaxLines)
    /\ columns = NullColumns
    /\ Vocabulary /\ NoRows /\ NoApplications /\ NoStore /\ NoMerge /\ NoAddress
    /\ images = <<OneSectionImage(lines)>>
    /\ imageIndex = 1
    /\ sectionY = SectionStep
    /\ inFlight = 0
    /\ session = "terminated"
    /\ report = "none"
    /\ totalCount = 0
    /\ sectionHeight = SectionStep
    /\ jimpImage = Blank(SectionStep)
    /\ removals = 1
    /\ bands = <<[y |-> 0, height |-> SectionStep]>>
    /\ reasonArgument = <<>>
    /\ returnedReason = <<>>

Next ==
    \/ LocateColumns
    \/ AssembleLines
    \/ GroupRowsByY
    \/ MergeByY
    \/ GroupRowsByNumber
    \/ MergeByNumber
    \/ ConvertRow
    \/ ReturnApplications
    \/ InsertRow
    \/ InsertRowFails
    \/ ImageDone

Spec == Init /\ [][Next]_vars

-----------------------------------------------------------------------------
(* parseImage, parsePdf and main: a run over the images of its documents.  *)

\* TerminateSkipped: the session is left as it is.
TerminateSkipped(engine) == engine

\* tesseract.terminate()
Terminate(engine) == "terminated"

\* SectionLines that adds sectionY as it is to word.bbox.y0.
SectionLinesUnscaled(result, y, sf) ==
    [l \in DOMAIN result |->
        [w \in DOMAIN result[l] |->
            [result[l][w] EXCEPT !.bounds.y = y + @]]]

\* the words of the lines of one OCR result, their y made relative to the
\* image: sectionY * scaleFactor + word.bbox.y0
SectionLines(result, y, sf) ==
    [l \in DOMAIN result |->
        [w \in DOMAIN result[l] |->
            [result[l][w] EXCEPT !.bounds.y = y * sf + @]]]

\* the OCR result of the section of the image that starts at y
SectionResult(image, y) == image.results[(y \div SectionStep) + 1]

\* An image is black on white.  A row of pixels is held as the number of its
\* pixels that are black, the only colour that is dark; colors of a row that
\* has not been read yet is NullColors.
NullColors == -1

\* darkCount >= image.width - 2 * ColumnGap
IsRule(darkCount, width) == darkCount >= width - 2 * ColumnGap

\* the most common colour of the row is black: "for (let color in
\* previousColors)" reaches the key of black (255) before the key of white
\* (4294967295), and previousColors[color] > previousColors[previousColor]
\* keeps the first of two colours that are as common
MostCommonIsDark(colors, width) == colors > 0 /\ colors >= width - colors

\* for (let y = 0; y < image.height; y++): the rows from y on as the loop
\* leaves them (a row is read before it is written and never read again);
\* previousColors are the colours of the row before as they were read
RECURSIVE RemoveRulesFrom(_, _, _, _)
RemoveRulesFrom(image, y, previousColors, width) ==
    IF y > Len(image) THEN <<>>
    ELSE LET colors == image[y]
             row == IF IsRule(colors, width) /\ previousColors # NullColors
                    THEN IF MostCommonIsDark(previousColors, width) THEN width ELSE 0
                    ELSE colors
         IN <<row>> \o RemoveRulesFrom(image, y + 1, colors, width)

\* "Attempt to remove any horizontal black lines"
RemoveRules(data, width) == RemoveRulesFrom(data, 1, NullColors, width)

\* jimpImage.crop(0, sectionY, image.width, sectionHeight)
Crop(image, y, height) == SubSeq(image, y + 1, y + height)

\* SectionImage that crops the section before the rules are removed.
SectionImageCroppedFirst(data, width, y, height) ==
    RemoveRules(Crop(data, y, height), width)

\* the jimpImage of one pass: a copy of the whole image, its rules removed,
\* cropped to the section (each of its rows is scaleFactor rows of the buffer)
SectionImage(data, width, y, height) ==
    Crop(RemoveRules(data, width), y, height)

\* NextSectionY that steps by the height of a section.
NextSectionYNoOverlap(y) == y + SectionHeight

\* sectionY += SectionStep
NextSectionY(y) == y + SectionStep

\* One pass of "for (let sectionY = 0; sectionY < image.height; ...)" up to
\* the await of the recognition: the rules are removed, the section is
\* cropped and scaled, and tesseract.recognize(imageBuffer) is called.
StartSection ==
    /\ pc = "section"
    /\ sectionY < images[imageIndex].height
    /\ sectionHeight' = Min(images[imageIndex].height - sectionY, SectionHeight)
    /\ jimpImage' = SectionImage(images[imageIndex].data, images[imageIndex].width,
                                 sectionY, sectionHeight')
    /\ removals' = removals + 1
    /\ bands' = Append(bands, [y |-> sectionY, height |-> sectionHeight'])
    /\ inFlight' = inFlight + 1
    /\ session' = "started"
    /\ pc' = "recognize"
    /\ UNCHANGED <<totalCount, reasonArgument, returnedReason, scaleFactor, lines, columns, assembled, rows, converted, groups,
                   developmentApplications, pending, database, outcome,
                   rowsArgument, mergedRow, address, formattedAddress,
                   AllStreetNames, AllSuburbNames, SpellingCorrections,
                   images, imageIndex, sectionY, report>>

\* The recognition returns its result: tesseract.terminate() is called, the
\* lines of the result are pushed and sectionY += SectionStep.
RecognizeReturns ==
    /\ pc = "recognize"
    /\ inFlight' = inFlight - 1
    /\ session' = Terminate(session)
    /\ lines' = lines \o SectionLines(SectionResult(images[imageIndex], sectionY),
                                      sectionY, scaleFactor)
    /\ sectionY' = NextSectionY(sectionY)
    /\ pc' = "section"
    /\ UNCHANGED <<localVars, scaleFactor, columns, assembled, rows, converted, groups,
                   developmentApplications, pending, database, outcome,
                   rowsArgument, mergedRow, address, formattedAddress,
                   AllStreetNames, AllSuburbNames, SpellingCorrections,
                   images, imageIndex, report>>

\* The recognition fails: only then(...) was given a handler, so the promise
\* that parseImage awaits is never settled and the run goes no further.
RecognizeNeverReturns ==
    /\ pc = "recognize"
    /\ pc' = "stalled"
    /\ UNCHANGED <<localVars, scaleFactor, lines, columns, assembled, rows, converted, groups,
                   developmentApplications, pending, database, outcome,
                   rowsArgument, mergedRow, address, formattedAddress,
                   AllStreetNames, AllSuburbNames, SpellingCorrections, runVars>>

\* sectionY < image.height is false: return parseLines(pdfUrl, lines, scaleFactor)
SectionsDone ==
    /\ pc = "section"
    /\ sectionY >= images[imageIndex].height
    /\ pc' = "findColumns"
    /\ UNCHANGED <<localVars, scaleFactor, lines, columns, assembled, rows, converted, groups,
                   developmentApplications, pending, database, outcome,
                   rowsArgument, mergedRow, address, formattedAddress,
                   AllStreetNames, AllSuburbNames, SpellingCorrections, runVars>>

\* band B of the table row of LineBandA, as the section at sectionY = 5 holds
\* it: 5 * 5 + 85 = 110
SectionLineBandB == TableLine(85, Date29, 88, Text077, 70, WordCarport, KingSt, 80)

\* what is in an image: its height and the OCR result of each section
ImageTable ==
    [height |-> 10, results |-> <<<<LineBandA>>, <<SectionLineBandB>>>>]

ImageRepeat == [height |-> 5, results |-> <<<<LineRepeat>>>>]

\* an image without a table of five columns
ImageNoTable == [height |-> 5, results |-> <<<<LineShort>>>>]

\* an image in which OCR finds no line
ImageBlank == [height |-> 5, results |-> << <<>> >>]

ImageContents == {ImageTable, ImageRepeat, ImageNoTable, ImageBlank}

\* where an image is: the document and the page
ImagePlaces ==
    <<[pdfUrl |-> "pdfUrl", pageNumber |-> 1],
      [pdfUrl |-> "pdfUrl", pageNumber |-> 2],
      [pdfUrl |-> "pdfUrl2", pageNumber |-> 1]>>

\* the runs of count images: any contents, at places in the order of the
\* loops of main and parsePdf
RunsOf(count) ==
    {[i \in 1..count |->
         [pdfUrl |-> ImagePlaces[places[i]].pdfUrl,
          pageNumber |-> ImagePlaces[places[i]].pageNumber,
          height |-> contents[i].height,
          width |-> ImageWidth,
          data |-> Blank(contents[i].height),
          results |-> contents[i].results]] :
       contents \in [1..count -> ImageContents],
       places \in {f \in [1..count -> DOMAIN ImagePlaces] :
                       \A i, j \in 1..count : i < j => f[i] <= f[j]}}

\* main has loaded the vocabularies and parsePdf calls parseImage for the
\* first image
InitRun ==
    /\ pc = "section"
    /\ scaleFactor = ScaleFactor
    /\ lines = <<>>
    /\ columns = NullColumns
    /\ Vocabulary /\ NoRows /\ NoApplications /\ NoStore /\ NoMerge /\ NoAddress
    /\ images \in UNION {RunsOf(count) : count \in 1..MaxImages}
    /\ imageIndex = 1
    /\ sectionY = 0
    /\ inFlight = 0
    /\ session = "none"
    /\ report = "none"
    /\ NoLocals

NextRun ==
    \/ StartSection
    \/ RecognizeReturns
    \/ RecognizeNeverReturns
    \/ SectionsDone
    \/ LocateColumns
    \/ AssembleLines
    \/ GroupRowsByY
    \/ MergeByY
    \/ GroupRowsByNumber
    \/ MergeByNumber
    \/ ConvertRow
    \/ ReturnApplications
    \/ InsertRow
    \/ InsertRowFails
    \/ ImageDone

SpecRun == InitRun /\ [][NextRun]_vars

-----------------------------------------------------------------------------
(* parseImage on its own, up to its call of parseLines: one image of up to *)
(* MaxImageHeight rows of pixels, with a horizontal rule of up to          *)
(* MaxRuleRows rows and at most one line of text.                          *)

\* the rows (counted from 0, as y in the code) at which a rule starts
RuleYs == {0, 1, 4, 5, 9}

\* the row at which the line of text starts; NoText when there is none
NoText == -1

TextYs == {NoText, 0, 10}

\* the rows of the image: the rule is black from side to side, the row above
\* it may be shaded (60 of its 100 pixels black), a row of text has 30 black
\* pixels
PageData(height, ruleY, ruleRows, shaded, textY) ==
    [r \in 1..height |->
        IF ruleY < r /\ r <= ruleY + ruleRows THEN ImageWidth
        ELSE IF shaded /\ r = ruleY THEN 60
        ELSE IF textY # NoText /\ textY < r /\ r <= textY + LineHeight THEN 30
        ELSE 0]

\* What tesseract.recognize finds in the buffer of a section: the line of
\* text when all of it is in the section.  The buffer is the section scaled
\* by scaleFactor, so the top of the words is the distance from the top of
\* the section, in pixels of the buffer.
Recognized(textY, y, height, sf) ==
    IF textY # NoText /\ y <= textY /\ textY + LineHeight <= y + height
    THEN <<TableLine((textY - y) * sf, Date29, 90, Text077, 90, WordCarport,
                     KingSt, 90)>>
    ELSE <<>>

\* the number of values of sectionY below the height
SectionCount(height) == (height + SectionStep - 1) \div SectionStep

PageImage(height, ruleY, ruleRows, shaded, textY) ==
    [pdfUrl |-> "pdfUrl", pageNumber |-> 1, height |-> height,
     width |-> ImageWidth,
     data |-> PageData(height, ruleY, ruleRows, shaded, textY),
     textY |-> textY,
     results |-> [k \in 1..SectionCount(height) |->
                     Recognized(textY, (k - 1) * SectionStep,
                                Min(height - (k - 1) * SectionStep, SectionHeight),
                                ScaleFactor)]]

PageImages ==
    {PageImage(height, ruleY, ruleRows, shaded, textY) :
        height \in 1..MaxImageHeight, ruleY \in RuleYs, ruleRows \in 0..MaxRuleRows,
        shaded \in BOOLEAN, textY \in TextYs}

\* parsePdf calls parseImage for the image
InitImage ==
    /\ pc = "section"
    /\ scaleFactor = ScaleFactor
    /\ lines = <<>>
    /\ columns = NullColumns
    /\ NoVocabulary /\ NoRows /\ NoApplications /\ NoStore /\ NoMerge /\ NoAddress
    /\ images \in {<<image>> : image \in PageImages}
    /\ imageIndex = 1
    /\ sectionY = 0
    /\ inFlight = 0
    /\ session = "none"
    /\ report = "none"
    /\ NoLocals

NextImage ==
    \/ StartSection
    \/ RecognizeReturns
    \/ RecognizeNeverReturns
    \/ SectionsDone

SpecImage == InitImage /\ [][NextImage]_vars

-----------------------------------------------------------------------------
(* The first grouping on its own: up to MaxGroupRows rows that passed the  *)
(* gate, at scale factor 5 (rows less than 25 apart are close).            *)

\* the y of the first cell of these rows
GroupYs == {80, 100, 120, 125, 300}

\* the row of candidate i with every cell at y
GroupRow(y, i) ==
    [c \in DOMAIN MergeRow(i, 1) |-> [MergeRow(i, 1)[c] EXCEPT !.y = y]]

GroupRowSet == {GroupRow(y, i) : y \in GroupYs, i \in {2, 3}}

InitGroup ==
    /\ pc = "groupByY"
    /\ rows \in SeqsUpTo(GroupRowSet, MaxGroupRows)
    /\ assembled = rows
    /\ converted = 0
    /\ groups = <<>>
    /\ NoVocabulary /\ NoLines /\ NoApplications /\ NoStore /\ NoMerge /\ NoAddress
    /\ NoRun /\ NoLocals

NextGroup == GroupRowsByY \/ MergeByY

SpecGroup == InitGroup /\ [][NextGroup]_vars

-----------------------------------------------------------------------------
(* insertRow on its own: up to MaxPending applications, which may share    *)
(* their application number, are inserted into an empty table.             *)

StoreApplications ==
    {[applicationNumber |-> number, address |-> addr, reason |-> WordCarport,
      informationUrl |-> "pdfUrl"] :
        number \in {Text060, Text077}, addr \in {NameKingSt, NameMainRd}}

InitStore ==
    /\ pc = "insert"
    /\ developmentApplications \in SeqsUpTo(StoreApplications, MaxPending)
    /\ pending = developmentApplications
    /\ Vocabulary /\ NoLines /\ NoRows /\ NoStore /\ NoMerge /\ NoAddress
    /\ NoRun /\ NoLocals

NextStore == InsertRow \/ InsertRowFails \/ ImageDone

SpecStore == InitStore /\ [][NextStore]_vars

-----------------------------------------------------------------------------
(* formatAddress on its own: the address of a row (trimmed, its words      *)
(* joined by single spaces) against the vocabularies of a run.             *)

\* "2/121-130A Main North Raod MEDINDIE GARDENS SA 5083"
AddressMainNorthRaod ==
    <<"2", "/", "1", "2", "1", "-", "1", "3", "0", "A", " ", "M", "a", "i",
      "n", " ", "N", "o", "r", "t", "h", " ", "R", "a", "o", "d", " ", "M",
      "E", "D", "I", "N", "D", "I", "E", " ", "G", "A", "R", "D", "E", "N",
      "S", " ", "S", "A", " ", "5", "0", "8", "3">>

\* "2/121-130A Main North Road MEDINDIE GARDENS SA 5083"
AddressMainNorthRoad ==
    <<"2", "/", "1", "2", "1", "-", "1", "3", "0", "A", " ", "M", "a", "i",
      "n", " ", "N", "o", "r", "t", "h", " ", "R", "o", "a", "d", " ", "M",
      "E", "D", "I", "N", "D", "I", "E", " ", "G", "A", "R", "D", "E", "N",
      "S", " ", "S", "A", " ", "5", "0", "8", "3">>

\* the suburb split by one spurious space: a window of five tokens
AddressSplitSuburb ==
    <<"2", "/", "1", "2", "1", "-", "1", "3", "0", "A", " ", "M", "a", "i",
      "n", " ", "N", "o", "r", "t", "h", " ", "R", "a", "o", "d", " ", "M",
      "E", "D", "I", " ", "N", "D", "I", "E", " ", "G", "A", "R", "D", "E",
      "N", "S", " ", "S", "A", " ", "5", "0", "8", "3">>

\* the suburb split by two spurious spaces: a window of six tokens
AddressSplitTwice ==
    <<"2", "/", "1", "2", "1", "-", "1", "3", "0", "A", " ", "M", "a", "i",
      "n", " ", "N", "o", "r", "t", "h", " ", "R", "a", "o", "d", " ", "M",
      "E", " ", "D", "I", " ", "N", "D", "I", "E", " ", "G", "A", "R", "D",
      "E", "N", "S", " ", "S", "A", " ", "5", "0", "8", "3">>

AddressKingSt ==
    <<"6", " ", "K", "i", "n", "g", " ", "S", "t", " ", "P", "R", "O", "S",
      "P", "E", "C", "T">>

AddressKimgSt ==
    <<"6", " ", "K", "i", "m", "g", " ", "S", "t", " ", "P", "R", "O", "S",
      "P", "E", "K", "T">>

AddressNowhere ==
    <<"6", " ", "K", "i", "n", "g", " ", "S", "t", " ", "N", "O", "W", "H",
      "E", "R", "E">>

AddressUnknownWay ==
    <<"6", " ", "U", "n", "k", "n", "o", "w", "n", " ", "W", "a", "y", " ",
      "P", "R", "O", "S", "P", "E", "C", "T">>

\* a suburb and nothing before it
AddressSuburbOnly ==
    <<"P", "R", "O", "S", "P", "E", "C", "T">>

\* one token that is no suburb
AddressOneToken ==
    <<"N", "O", "W", "H", "E", "R", "E">>

NameMainNorthRoad ==
    <<"M", "a", "i", "n", " ", "N", "o", "r", "t", "h", " ", "R", "o", "a",
      "d">>

NameMedindieGardens ==
    <<"M", "E", "D", "I", "N", "D", "I", "E", " ", "G", "A", "R", "D", "E",
      "N", "S">>

\* a suburb name with the state abbreviation and the postcode
NameMedindieGardensSA ==
    <<"M", "E", "D", "I", "N", "D", "I", "E", " ", "G", "A", "R", "D", "E",
      "N", "S", " ", "S", "A", " ", "5", "0", "8", "3">>

AddressCatalogue ==
    {AddressMainNorthRaod, AddressMainNorthRoad, AddressSplitSuburb,
     AddressSplitTwice, AddressKingSt, AddressKimgSt, AddressNowhere,
     AddressUnknownWay, AddressSuburbOnly, AddressOneToken}

\* the contents of streetnames.txt
StreetVocabularies ==
    {<<NameKingSt, NameMainNorthRoad>>, <<NameKingSt, NameMainRd>>}

\* the contents of suburbnames.txt: suburb names alone, or followed by the
\* state abbreviation and postcode that end an address
SuburbVocabularies ==
    {<<NameMedindieGardens, WordProspect>>,
     <<NameMedindieGardensSA, WordProspect>>,
     <<NameMedindieGardens, NameMedindieGardensSA>>}

InitAddress ==
    /\ pc = "formatAddress"
    /\ address \in AddressCatalogue
    /\ formattedAddress = <<>>
    /\ AllStreetNames \in StreetVocabularies
    /\ AllSuburbNames \in SuburbVocabularies
    /\ SpellingCorrections = <<>>
    /\ NoLines /\ NoRows /\ NoApplications /\ NoStore /\ NoMerge /\ NoRun
    /\ NoLocals

\* A call formatAddress(address).
FormatAddress ==
    /\ pc = "formatAddress"
    /\ formattedAddress' = formatAddress(address)
    /\ pc' = "formatted"
    /\ UNCHANGED <<localVars, scaleFactor, lines, columns, assembled, rows, converted, groups,
                   developmentApplications, pending, database, outcome,
                   rowsArgument, mergedRow, address, AllStreetNames,
                   AllSuburbNames, SpellingCorrections, runVars>>

NextAddress == FormatAddress

SpecAddress == InitAddress /\ [][NextAddress]_vars

-----------------------------------------------------------------------------
(* formatReason on its own: reasons of up to MaxReasonTokens words and     *)
(* separators, with a table of spelling corrections.                       *)

WordConstructor == <<"c", "o", "n", "s", "t", "r", "u", "c", "t", "o", "r">>

WordAnd == <<"a", "n", "d">>

\* "fit" with the ligature of f and i
WordFit == <<Ligature, "t">>

ReasonTokens ==
    {WordCarport, WordExistinq, WordConstructor, WordFit, <<" ">>, <<"&">>}

\* the tokens one after the other
RECURSIVE Flatten(_)
Flatten(texts) ==
    IF texts = <<>> THEN <<>> ELSE Head(texts) \o Flatten(Tail(texts))

\* words.txt: no line, the line "Existinq,Existing", or that line and "&,and"
ReasonTables ==
    {<<>>, Corrections, Corrections \o <<<<(<<"&">>), WordAnd>>>>}

InitReason ==
    /\ pc = "formatReason"
    /\ NoLines /\ NoRows /\ NoApplications /\ NoStore /\ NoMerge /\ NoAddress /\ NoRun
    /\ AllStreetNames = <<>>
    /\ AllSuburbNames = <<>>
    /\ SpellingCorrections \in ReasonTables
    /\ totalCount = 0
    /\ jimpImage = <<>>
    /\ sectionHeight = 0
    /\ removals = 0
    /\ bands = <<>>
    /\ reasonArgument \in {Flatten(tokens) : tokens \in SeqsUpTo(ReasonTokens, MaxReasonTokens)}
    /\ returnedReason = <<>>

\* A call formatReason(reason).
FormatReason ==
    /\ pc = "formatReason"
    /\ returnedReason' = formatReason(reasonArgument)
    /\ pc' = "formatted"
    /\ UNCHANGED <<scaleFactor, lines, columns, assembled, rows, converted, groups,
                   developmentApplications, pending, database, outcome,
                   rowsArgument, mergedRow, address, formattedAddress,
                   AllStreetNames, AllSuburbNames, SpellingCorrections, runVars,
                   totalCount, jimpImage, sectionHeight, removals, bands,
                   reasonArgument>>

NextReason == FormatReason

SpecReason == InitReason /\ [][NextReason]_vars

\* the places of the text at which a run starts, and the place after its end
RunBounds(text) ==
    {i \in 1..(Len(text) + 1) :
        \/ i = 1
        \/ i = Len(text) + 1
        \/ IsLetter(text[i]) # IsLetter(text[i - 1])}

\* the run that starts at i
RunAt(text, i) ==
    SubSeq(text, i, (CHOOSE j \in RunBounds(text) :
                        j > i /\ \A k \in RunBounds(text) : k > i => j <= k) - 1)

\* the run is a run of letters under which the table holds a correction
IsCorrectedWord(run) ==
    /\ IsLetter(run[1])
    /\ \E i \in DOMAIN SpellingCorrections : SpellingCorrections[i][1] = run

\* the text that takes the place of the run
RunOrCorrection(run) ==
    IF IsCorrectedWord(run)
    THEN SpellingCorrections[CHOOSE i \in DOMAIN SpellingCorrections :
                                SpellingCorrections[i][1] = run][2]
    ELSE run

\* C25 as claimed: formatReason splits the reason at every letter/non-letter
\* boundary, replaces a run only when it is a run of letters that is a key
\* of the table of corrections, and passes every other run through; the
\* result is the runs in order, so a reason none of whose runs of letters is
\* in the table is returned unchanged.
C25_OnlyTableWordsReplaced ==
    pc = "formatted" =>
        \A text \in {reasonArgument} :
            LET starts == Ascending(RunBounds(text) \ {Len(text) + 1})
            IN returnedReason =
                   Flatten([k \in DOMAIN starts |->
                               RunOrCorrection(RunAt(text, starts[k]))])

-----------------------------------------------------------------------------
(* Claims about mergeRows, under SpecMerge.                                *)

\* the candidate cells of a column of the bucket
Candidates(columnIndex) ==
    {rowsArgument[i][columnIndex] : i \in DOMAIN rowsArgument}

\* the merged cell has the text and confidence of this candidate
ChosenIs(columnIndex, cell) ==
    /\ mergedRow[columnIndex].text = cell.text
    /\ mergedRow[columnIndex].confidence = cell.confidence

\* C2: for the received date and application number columns, the cell chosen
\* by mergeRows is a candidate at the smallest distance |2 - number of "/"|
\* and, among the candidates at that distance, one of the highest confidence.
C2_SmallestDistanceThenConfidence ==
    pc = "merged" =>
        \A columnIndex \in {1, 2} :
            \E chosen \in Candidates(columnIndex) :
                /\ ChosenIs(columnIndex, chosen)
                /\ \A other \in Candidates(columnIndex) :
                      /\ SlashDistance(chosen) <= SlashDistance(other)
                      /\ SlashDistance(other) = SlashDistance(chosen)
                            => ~ConfidenceGreater(other.confidence, chosen.confidence)

\* the orders in which n rows can be passed
RowOrders(n) ==
    {p \in [1..n -> 1..n] : \A i, j \in 1..n : p[i] = p[j] => i = j}

\* no two candidate cells of the column have the same confidence
DistinctConfidences(columnIndex) ==
    \A i, j \in DOMAIN rowsArgument :
        i # j => rowsArgument[i][columnIndex].confidence.num
                     * rowsArgument[j][columnIndex].confidence.den
                 # rowsArgument[j][columnIndex].confidence.num
                     * rowsArgument[i][columnIndex].confidence.den

\* the merged cell of the column is the same when the rows are passed in
\* any other order
SameInAnyOrder(columnIndex) ==
    \A p \in RowOrders(Len(rowsArgument)) :
        \A merged \in {mergeRows([i \in DOMAIN rowsArgument |-> rowsArgument[p[i]]])} :
            /\ merged[columnIndex].text = mergedRow[columnIndex].text
            /\ merged[columnIndex].confidence = mergedRow[columnIndex].confidence

\* C29 as claimed: for a column whose candidate cells have pairwise distinct
\* confidences, the merged text and confidence do not depend on the order of
\* the rows of the bucket, in the received date and application number
\* columns as well as in the others.
C29_MergeIgnoresOrder ==
    pc = "merged" =>
        \A columnIndex \in 1..5 :
            DistinctConfidences(columnIndex) => SameInAnyOrder(columnIndex)

\* the bucket holds two rows whose application numbers are "060/331/2018" at
\* confidence 80 and "06O/331/2018" at confidence 92, in either order
IsC3Bucket ==
    /\ Len(rowsArgument) = 2
    /\ {<<rowsArgument[i][2].text, rowsArgument[i][2].confidence>> : i \in {1, 2}}
          = {<<Text060, Confidence(80, 1)>>, <<Text06O, Confidence(92, 1)>>}

\* C3 as claimed: from the bucket of "060/331/2018" (80) and "06O/331/2018"
\* (92), in either order, mergeRows selects "060/331/2018".
C3_SelectsLowerConfidence ==
    pc = "merged" /\ IsC3Bucket => mergedRow[2].text = Text060

\* C3 amended: both candidates hold two "/" characters, so the tie is broken
\* by confidence and mergeRows selects "06O/331/2018" at confidence 92, in
\* either order.
C3_SelectsHigherConfidence ==
    pc = "merged" /\ IsC3Bucket =>
        /\ mergedRow[2].text = Text06O
        /\ mergedRow[2].confidence = Confidence(92, 1)

\* the lower-confidence candidate came first and was replaced
C3_Witness ==
    /\ pc = "merged"
    /\ IsC3Bucket
    /\ rowsArgument[1][2].text = Text060
    /\ mergedRow[2].text = Text06O

\* C10: mergeRows of a bucket of one row returns that row with text,
\* confidence and y of every cell unchanged, and mergeRows of the bucket that
\* holds only that result returns the same row again.
C10_SingleRowUnchanged ==
    [][/\ pc = "mergeRows" /\ Len(rowsArgument) = 1 => mergedRow' = rowsArgument[1]
       /\ pc = "merged" /\ Len(rowsArgument) = 1 => mergedRow' = mergedRow]_vars

\* a single-row bucket was merged and its result merged again
C10_Witness ==
    /\ pc = "remerged"
    /\ Len(rowsArgument) = 1
    /\ mergedRow = rowsArgument[1]

\* C17: for the reason, applicant and address columns the cell chosen by
\* mergeRows has the highest confidence among the candidate cells of the
\* column, and its text is the text of a candidate with that confidence.
C17_OtherColumnsHighestConfidence ==
    pc = "merged" =>
        \A columnIndex \in 3..5 :
            \E chosen \in Candidates(columnIndex) :
                /\ ChosenIs(columnIndex, chosen)
                /\ \A other \in Candidates(columnIndex) :
                      ~ConfidenceGreater(other.confidence, chosen.confidence)

\* of three rows the last holds the reason of the highest confidence and
\* replaced that of the first
C17_Witness ==
    /\ pc = "merged"
    /\ Len(rowsArgument) = 3
    /\ ConfidenceGreater(rowsArgument[3][3].confidence, rowsArgument[1][3].confidence)
    /\ ConfidenceGreater(rowsArgument[3][3].confidence, rowsArgument[2][3].confidence)
    /\ mergedRow[3].text = rowsArgument[3][3].text
    /\ mergedRow[3].text # rowsArgument[1][3].text

-----------------------------------------------------------------------------
(* Claims about the grouping by Y co-ordinate, under SpecGroup.            *)

\* the distance of the first cells of two rows
YDistance(row, other) == Abs(NumY(row[1].y) - NumY(other[1].y))

\* C18 as claimed: any two rows in the same stage-1 bucket have first-cell y
\* values that differ by less than LineAlignment * scaleFactor.
C18_BucketRowsPairwiseClose ==
    pc = "mergeByY" =>
        \A g \in DOMAIN groups :
            \A i, j \in DOMAIN groups[g].rows :
                YDistance(groups[g].rows[i], groups[g].rows[j])
                    < LineAlignment * scaleFactor

\* C18 amended: every row of a stage-1 bucket has a first-cell y that differs
\* by less than LineAlignment * scaleFactor from that of the first row of the
\* bucket (the y of the bucket), so that any two rows of a bucket differ by
\* less than twice LineAlignment * scaleFactor.
C18_BucketRowsCloseToFirst ==
    pc = "mergeByY" =>
        \A g \in DOMAIN groups :
            /\ groups[g].y = groups[g].rows[1][1].y
            /\ \A i \in DOMAIN groups[g].rows :
                  YDistance(groups[g].rows[i], groups[g].rows[1])
                      < LineAlignment * scaleFactor
            /\ \A i, j \in DOMAIN groups[g].rows :
                  YDistance(groups[g].rows[i], groups[g].rows[j])
                      < 2 * LineAlignment * scaleFactor

\* rows at y = 100, 120 and 80 are in one bucket: the last two are 40 apart
C18_Witness ==
    /\ pc = "mergeByY"
    /\ Len(groups) = 1
    /\ Len(groups[1].rows) = 3
    /\ groups[1].y = 100
    /\ groups[1].rows[2][1].y = 120
    /\ groups[1].rows[3][1].y = 80

-----------------------------------------------------------------------------
(* Claims about findColumns, under SpecColumns.                            *)

\* C4: findColumns returns null or exactly five columns whose x values are
\* strictly increasing.
C4_FiveAscendingColumnsOrNull ==
    pc = "located" =>
        \/ columns = NullColumns
        \/ /\ Len(columns) = ColumnCount
           /\ \A i, j \in DOMAIN columns : i < j => columns[i].x < columns[j].x

\* five columns were returned although the second line starts left of the
\* first, so the columns were not found in ascending order
C4_Witness ==
    /\ pc = "located"
    /\ Len(columns) = ColumnCount
    /\ Len(lines) = 2
    /\ lines[2][1].bounds.x < lines[1][1].bounds.x

-----------------------------------------------------------------------------
(* Claims about parseLines and parsePdf, under Spec.                       *)

\* parseLines has merged its rows (both stages)
Merged == pc \in {"convert", "insert", "done", "aborted"} /\ columns # NullColumns

\* C1: when band A captures a row with application number "077/586l2018" at
\* confidence 91 and band B, second, captures it with "077/586/2018" at
\* confidence 70, the one merged row holds the band B value.
C1_TwoBandsMergeToBandB ==
    Merged /\ lines = <<LineBandA, LineBandB>> =>
        /\ Len(rows) = 1
        /\ rows[1][2].text = Text077

\* C5: after the two grouping and merge stages the merged rows have pairwise
\* distinct application numbers, every application number of a stage-1 winner
\* is that of exactly one merged row, and no two applications returned for
\* the image share their application number.
C5_OneRowPerNumber ==
    Merged =>
        /\ \A i, j \in DOMAIN rows : i # j => rows[i][2].text # rows[j][2].text
        /\ \A g \in DOMAIN groups : \A r \in DOMAIN groups[g].rows :
              Cardinality({i \in DOMAIN rows :
                              rows[i][2].text = groups[g].rows[r][2].text}) = 1
        /\ \A a, b \in DOMAIN developmentApplications :
              a # b => developmentApplications[a].applicationNumber
                          # developmentApplications[b].applicationNumber

\* two stage-1 winners with the same application number were merged into one
\* row, and that row became an application
C5_Witness ==
    /\ pc = "insert"
    /\ Len(rows) = 1
    /\ \E g \in DOMAIN groups : Len(groups[g].rows) = 2
    /\ Len(developmentApplications) = 1

\* C7: every application returned comes from a merged row whose application
\* number is not empty and has confidence >= 70 and whose address has
\* confidence >= 75; a row whose application number has confidence below 70
\* yields no application.
C7_ConfidenceGates ==
    Merged =>
        /\ \A a \in DOMAIN developmentApplications :
              \E i \in 1..converted :
                 /\ rows[i][2].text = developmentApplications[a].applicationNumber
                 /\ rows[i][2].text # <<>>
                 /\ ConfidenceAtLeast(rows[i][2].confidence, 70)
                 /\ ConfidenceAtLeast(rows[i][5].confidence, 75)
        /\ \A i \in 1..converted :
              ConfidenceBelow(rows[i][2].confidence, 70) =>
                 \A a \in DOMAIN developmentApplications :
                    developmentApplications[a].applicationNumber # rows[i][2].text

\* a row whose application number has confidence 65, every other cell 90 or
\* more and a recognised address was converted and gave no application
C7_Witness ==
    /\ pc = "insert"
    /\ Len(rows) = 1
    /\ rows[1][2].confidence = Confidence(65, 1)
    /\ \A c \in {1, 3, 4, 5} : ConfidenceAtLeast(rows[1][c].confidence, 90)
    /\ formattedAddress.hasRecognizedStreet
    /\ developmentApplications = <<>>

\* C8: every application returned by parseLines, and every key of [data], is
\* an application number that contains the separator "/".
C8_NumbersHoldSeparator ==
    /\ \A a \in DOMAIN developmentApplications :
          HasSlash(developmentApplications[a].applicationNumber)
    /\ \A key \in DOMAIN database : HasSlash(key)

\* the row converted last became an application
LastRowReturned ==
    /\ pc = "convert"
    /\ converted > 0
    /\ \E a \in DOMAIN developmentApplications :
          developmentApplications[a].applicationNumber = rows[converted][2].text

\* C9 as claimed: a merged row becomes an application only if formatAddress
\* recognised both the street and the suburb of its address.
C9_StreetAndSuburbRecognised ==
    LastRowReturned =>
        formattedAddress.hasRecognizedStreet /\ formattedAddress.hasRecognizedSuburb

\* C9 amended: a merged row becomes an application only if formatAddress
\* recognised the suburb of its address and found a street part before it
\* (hasStreet), whether or not the street name was recognised.
C9_StreetPartAndSuburbRecognised ==
    LastRowReturned =>
        formattedAddress.hasStreet /\ formattedAddress.hasRecognizedSuburb

\* a row became an application although its street name was not recognised
C9_Witness ==
    /\ LastRowReturned
    /\ formattedAddress.hasStreet
    /\ formattedAddress.hasRecognizedSuburb
    /\ ~formattedAddress.hasRecognizedStreet

-----------------------------------------------------------------------------
(* Claims about insertRow, under SpecStore.                                *)

\* the applications for which insertRow has resolved so far
Inserted ==
    SubSeq(developmentApplications, 1, Len(developmentApplications) - Len(pending))

\* the first of the inserted applications with the key
FirstInserted(key) ==
    Inserted[CHOOSE i \in DOMAIN Inserted :
                /\ Inserted[i].applicationNumber = key
                /\ \A j \in DOMAIN Inserted :
                      Inserted[j].applicationNumber = key => i <= j]

\* C6: after any sequence of insertRow calls, [data] holds under each
\* application number exactly the first application inserted under it; an
\* insert under a key that is present leaves [data] as it is and resolves.
C6_FirstInsertIsKept ==
    /\ DOMAIN database = {Inserted[i].applicationNumber : i \in DOMAIN Inserted}
    /\ \A key \in DOMAIN database : database[key] = DataRow(FirstInserted(key))
    /\ outcome = "rejected" => pc = "aborted"

\* two applications with the same number and different addresses were
\* inserted, both inserts resolved and the first one is the row kept
C6_Witness ==
    /\ pc = "done"
    /\ outcome = "resolved"
    /\ \E i, j \in DOMAIN developmentApplications :
          /\ i < j
          /\ developmentApplications[i].applicationNumber
                = developmentApplications[j].applicationNumber
          /\ developmentApplications[i].address # developmentApplications[j].address
          /\ database[developmentApplications[i].applicationNumber]
                = DataRow(developmentApplications[i])

-----------------------------------------------------------------------------
(* Claims about the rows of parseLines, under Spec.                        *)

\* a confidence is a number (not 0 / 0) within [0, 100]
WithinPercent(confidence) ==
    /\ confidence.den >= 1
    /\ 0 <= confidence.num
    /\ confidence.num <= 100 * confidence.den

\* C11: every row built by the row assembler and every row produced by the
\* two merge stages has exactly 5 cells, every cell confidence is a number
\* within [0, 100], and a cell that received no words has confidence 0.
C11_FiveCellsConfidenceInRange ==
    /\ \A i \in DOMAIN assembled :
          /\ Len(assembled[i]) = 5
          /\ \A c \in DOMAIN assembled[i] :
                /\ WithinPercent(assembled[i][c].confidence)
                /\ assembled[i][c].texts = <<>>
                      => assembled[i][c].confidence.num = 0
    /\ \A i \in DOMAIN rows :
          /\ Len(rows[i]) = 5
          /\ \A c \in DOMAIN rows[i] : WithinPercent(rows[i][c].confidence)

\* a line that ends after its application number was assembled into a row
\* with three empty cells, and another line's row went through both merges
C11_Witness ==
    /\ pc = "convert"
    /\ rows # <<>>
    /\ \E i \in DOMAIN assembled :
          /\ assembled[i][2].texts # <<>>
          /\ \A c \in 3..5 : assembled[i][c].texts = <<>>

\* every cell of the row has a confidence of 60 or more, and the received
\* date or the application number holds a "/"
GateTest(row) ==
    /\ \A c \in 1..5 : ConfidenceAtLeast(row[c].confidence, 60)
    /\ \E c \in {1, 2} : \E k \in DOMAIN row[c].text : row[c].text[k] = "/"

\* C22: a row built from a line is passed on to the grouping if and only if
\* every one of its 5 cells has a confidence of 60 or more and its date cell
\* or its record-number cell holds "/"; the other rows are dropped, each
\* line is examined once and no error is reported.
C22_RowGate ==
    pc = "groupByY" =>
        /\ Len(assembled) = Len(lines)
        /\ rows = SelectSeq(assembled, GateTest)
        /\ report = "none"

\* a row with a cell at confidence 60 was passed on, and a row with all
\* cells at 60 or more and no "/" in its date and number was dropped
C22_Witness ==
    /\ pc = "groupByY"
    /\ \E i \in DOMAIN assembled :
          /\ \A c \in 1..5 : ConfidenceAtLeast(assembled[i][c].confidence, 60)
          /\ ~HasSlash(assembled[i][1].text) /\ ~HasSlash(assembled[i][2].text)
    /\ \E i \in DOMAIN rows :
          /\ rows[i][1].confidence.num = 60 * rows[i][1].confidence.den
    /\ Len(rows) = 1

\* C27: every row that passes the gate has at least one word and a y in
\* each of its 5 cells; the rows that reach the grouping by y, the rows of
\* the groups and the rows that reach the final filter all have a y in
\* their first cell, so the test that a y was recorded rejects no row.
C27_GatedRowsHaveWordsAndY ==
    /\ pc = "groupByY" =>
          \A i \in DOMAIN rows : \A c \in 1..5 :
              rows[i][c].texts # <<>> /\ rows[i][c].y # NullY
    /\ \A i \in DOMAIN rows : rows[i][1].y # NullY
    /\ \A g \in DOMAIN groups : \A i \in DOMAIN groups[g].rows :
          groups[g].rows[i][1].y # NullY

\* a line that ends after its application number gave a row with cells
\* without words or y, which was dropped, and the row of the other line
\* has reached the final filter
C27_Witness ==
    /\ pc = "convert"
    /\ converted = 1
    /\ Len(rows) = 1
    /\ \E i \in DOMAIN assembled :
          /\ HasSlash(assembled[i][1].text)
          /\ \E c \in 1..5 : assembled[i][c].texts = <<>> /\ assembled[i][c].y = NullY

-----------------------------------------------------------------------------
(* Claims about formatAddress, under SpecAddress.                          *)

\* the name is one of the names of the vocabulary
InVocabulary(name, vocabulary) == \E i \in DOMAIN vocabulary : vocabulary[i] = name

\* C12 as claimed: with "Main North Road" among the street names and
\* "MEDINDIE GARDENS" among the suburb names, formatAddress turns
\* "2/121-130A Main North Raod MEDINDIE GARDENS SA 5083" into
\* "2/121-130A Main North Road MEDINDIE GARDENS SA 5083".
C12_CorrectsRaodWithSuburbName ==
    /\ pc = "formatted"
    /\ address = AddressMainNorthRaod
    /\ InVocabulary(NameMainNorthRoad, AllStreetNames)
    /\ InVocabulary(NameMedindieGardens, AllSuburbNames)
    => formattedAddress.text = AddressMainNorthRoad

\* C12 amended: the suburb is matched against the trailing tokens of the
\* address, state abbreviation and postcode included, so the correction is
\* made when the suburb vocabulary holds "MEDINDIE GARDENS SA 5083"; when it
\* holds no name within edit distance 2 of a trailing window (as with
\* "MEDINDIE GARDENS" alone), the text is returned as it was.
C12_CorrectsRaodWithSuburbAndPostcode ==
    /\ pc = "formatted"
    /\ address = AddressMainNorthRaod
    /\ InVocabulary(NameMainNorthRoad, AllStreetNames)
    => IF InVocabulary(NameMedindieGardensSA, AllSuburbNames)
       THEN /\ formattedAddress.text = AddressMainNorthRoad
            /\ formattedAddress.hasRecognizedStreet
            /\ formattedAddress.hasRecognizedSuburb
       ELSE /\ formattedAddress.text = AddressMainNorthRaod
            /\ ~formattedAddress.hasRecognizedSuburb

\* the address was corrected against a vocabulary of suburbs with postcodes
C12_Witness ==
    /\ pc = "formatted"
    /\ address = AddressMainNorthRaod
    /\ InVocabulary(NameMainNorthRoad, AllStreetNames)
    /\ InVocabulary(NameMedindieGardensSA, AllSuburbNames)
    /\ formattedAddress.text = AddressMainNorthRoad

\* the last n tokens of the address (all of them when there are fewer),
\* joined by single spaces
TrailingWindow(n) ==
    LET tokens == SplitSpaces(Trim(address))
    IN Join(SubSeq(tokens, Max(1, Len(tokens) - n + 1), Len(tokens)), <<" ">>)

\* no trailing window of 1 to 5 tokens is within edit distance 2 of a suburb
NoSuburbWindowMatches ==
    \A n \in 1..5 : didyoumean(TrailingWindow(n), AllSuburbNames, 2) = 0

\* C13: when no trailing window of 1 to 5 tokens of the address matches a
\* suburb name within edit distance 2, formatAddress returns the text of the
\* address unmodified, flagged as having no recognized suburb, no street and
\* no recognized street.
C13_NoSuburbLeavesAddress ==
    pc = "formatted" /\ NoSuburbWindowMatches =>
        formattedAddress =
            [text |-> address, hasStreet |-> FALSE,
             hasRecognizedStreet |-> FALSE, hasRecognizedSuburb |-> FALSE]

\* the suburb was split into three tokens, so that it takes a window of six
\* tokens to hold the suburb, state and postcode of the vocabulary
C13_Witness ==
    /\ pc = "formatted"
    /\ address = AddressSplitTwice
    /\ InVocabulary(NameMedindieGardensSA, AllSuburbNames)
    /\ NoSuburbWindowMatches
    /\ formattedAddress.text = AddressSplitTwice
    /\ ~formattedAddress.hasRecognizedSuburb

\* the first of the trailing windows of 1 to 5 tokens that matches a suburb
\* holds every token of the address
SuburbTakesAllTokens ==
    \E n \in 1..5 :
        /\ didyoumean(TrailingWindow(n), AllSuburbNames, 2) # 0
        /\ \A m \in 1..(n - 1) : didyoumean(TrailingWindow(m), AllSuburbNames, 2) = 0
        /\ n >= Len(SplitSpaces(Trim(address)))

\* C28: the result of formatAddress has hasStreet equal to
\* hasRecognizedSuburb, and hasRecognizedStreet only when both are true; an
\* address whose tokens are all taken by the match of the suburb is returned
\* with the three flags false.
C28_FlagsAgree ==
    pc = "formatted" =>
        /\ formattedAddress.hasStreet = formattedAddress.hasRecognizedSuburb
        /\ formattedAddress.hasRecognizedStreet =>
              formattedAddress.hasStreet /\ formattedAddress.hasRecognizedSuburb
        /\ SuburbTakesAllTokens =>
              /\ ~formattedAddress.hasStreet
              /\ ~formattedAddress.hasRecognizedStreet
              /\ ~formattedAddress.hasRecognizedSuburb

\* "PROSPECT" alone, with PROSPECT a suburb of the vocabulary, was returned
\* with the three flags false
C28_Witness ==
    /\ pc = "formatted"
    /\ address = AddressSuburbOnly
    /\ InVocabulary(WordProspect, AllSuburbNames)
    /\ SuburbTakesAllTokens
    /\ formattedAddress =
          [text |-> AddressSuburbOnly, hasStreet |-> FALSE,
           hasRecognizedStreet |-> FALSE, hasRecognizedSuburb |-> FALSE]

\* the rows of the lines have just been assembled
JustAssembled == pc = "groupByY"

\* the least and the greatest of a set of indexes
First(indexes) == CHOOSE k \in indexes : \A j \in indexes : k <= j

Last(indexes) == CHOOSE k \in indexes : \A j \in indexes : j <= k

\* the column a word is aligned with: the first column whose x is less than
\* ColumnAlignment * scaleFactor from the x of the word, 0 when there is none
AlignedColumn(word) == ClosestColumn(columns, word.bounds.x, scaleFactor)

\* the words of the line that are aligned with column c
AlignedWith(line, c) == {k \in DOMAIN line : AlignedColumn(line[k]) = c}

\* for each word of the line, the column of the last aligned word up to it,
\* start when there is none
ColumnsOfWords(line, start) ==
    [k \in DOMAIN line |->
        IF \A j \in 1..k : AlignedColumn(line[j]) = 0 THEN start
        ELSE AlignedColumn(line[Last({j \in 1..k : AlignedColumn(line[j]) # 0})])]

\* the words that an assignment of columns gives to column c
WordsOf(column, c) == {k \in DOMAIN column : column[k] = c}

\* the cell holds the texts and confidences of these words of the line, in
\* the order of the line
HoldsWords(cell, line, words) ==
    /\ Len(cell.texts) = Cardinality(words)
    /\ Len(cell.confidences) = Cardinality(words)
    /\ \A k \in words :
          /\ cell.texts[Cardinality({j \in words : j <= k})] = line[k].text
          /\ cell.confidences[Cardinality({j \in words : j <= k})] = line[k].confidence

\* the cells of the assembled rows hold the words of their columns, when the
\* words before the first aligned word are given the column start
CellsHoldWords(start) ==
    JustAssembled =>
        \A i \in DOMAIN assembled :
            \A column \in {ColumnsOfWords(lines[i], start)} :
                \A c \in DOMAIN assembled[i] :
                    HoldsWords(assembled[i][c], lines[i], WordsOf(column, c))

\* C19 as claimed: the current column starts at the first column, so the
\* words before any column-aligned word are appended to the first cell and
\* every word of a line is in exactly one cell of the row.
C19_WordsBeforeColumnsInFirstCell == CellsHoldWords(1)

\* C19 amended: the current cell starts as null, so the words before the
\* first column-aligned word of a line are dropped; every word from the first
\* column-aligned word on is appended to exactly one cell, that of the last
\* column-aligned word up to it.
C19_WordsBeforeColumnsDropped == CellsHoldWords(0)

\* a line that starts with a word left of every column was assembled: the
\* first cell holds the received date alone
C19_Witness ==
    /\ JustAssembled
    /\ \E i \in DOMAIN assembled :
          /\ AlignedColumn(lines[i][1]) = 0
          /\ AlignedColumn(lines[i][2]) = 1
          /\ assembled[i][1].texts = <<lines[i][2].text>>

\* C20 as claimed: the y of a cell that received a word is the top of the
\* first word assigned to it, whatever words were assigned to it afterwards.
C20_YOfFirstWord ==
    JustAssembled =>
        \A i \in DOMAIN assembled :
            \A column \in {ColumnsOfWords(lines[i], 0)} :
                \A c \in DOMAIN assembled[i] :
                    assembled[i][c].texts # <<>> =>
                        assembled[i][c].y
                            = lines[i][First(WordsOf(column, c))].bounds.y

\* C20 amended: the y of a cell that received a word is the top of the last
\* word of the line that is aligned with the column of the cell (the first
\* word of a cell is always aligned); a word that is not aligned with a
\* column leaves every y as it is, and a cell without words has y null.
C20_YOfLastAlignedWord ==
    JustAssembled =>
        \A i \in DOMAIN assembled :
            \A column \in {ColumnsOfWords(lines[i], 0)} :
                \A c \in DOMAIN assembled[i] :
                    IF assembled[i][c].texts = <<>>
                    THEN assembled[i][c].y = NullY
                    ELSE /\ First(WordsOf(column, c)) \in AlignedWith(lines[i], c)
                         /\ assembled[i][c].y
                               = lines[i][Last(AlignedWith(lines[i], c))].bounds.y

\* the second word of an address is aligned with the address column as well
\* and lower than the first: the y of the cell is that of the second word
C20_Witness ==
    /\ JustAssembled
    /\ \E i \in DOMAIN assembled :
          /\ AlignedWith(lines[i], 5) = {5, 6}
          /\ lines[i][5].bounds.y # lines[i][6].bounds.y
          /\ assembled[i][5].y = lines[i][6].bounds.y

-----------------------------------------------------------------------------
(* Claims about the run of main, parsePdf and parseImage, under SpecRun.   *)

\* C14: when findColumns fails for an image, parseLines returns zero records
\* and raises no error, nothing is written, and parsePdf and main go on: to
\* the next image (of the page, of a later page or of a later document) when
\* there is one, to the end of main and the report of completion otherwise;
\* completion is reported only when every image of the run was reached.
C14_NoColumnsIsNotFatal ==
    [][/\ (pc = "findColumns" /\ columns' = NullColumns) =>
             /\ pc' = "insert"
             /\ developmentApplications' = <<>>
             /\ pending' = <<>>
             /\ database' = database
             /\ outcome' = outcome
             /\ report' = report
       /\ (pc = "insert" /\ columns = NullColumns) =>
             IF imageIndex < Len(images)
             THEN /\ imageIndex' = imageIndex + 1
                  /\ pc' = "section"
                  /\ sectionY' = 0
                  /\ report' = report
             ELSE /\ pc' = "done"
                  /\ report' = "Complete."
       /\ report' = "Complete." => imageIndex' = Len(images)]_vars

\* findColumns failed for the first image, and the image of the next
\* document was parsed, its application inserted and the run completed
C14_Witness ==
    /\ pc = "done"
    /\ report = "Complete."
    /\ Len(images) = 2
    /\ images[1].results = ImageNoTable.results
    /\ images[2].pdfUrl # images[1].pdfUrl
    /\ database # <<>>

\* C15: at most one recognition call is in flight, and a recognition call is
\* started only when none is in flight and the session of the call before it
\* (of the same image, of the image before or of the document before) has
\* been terminated.
C15_OneRecognitionAtATime ==
    [][/\ inFlight' <= 1
       /\ inFlight' > inFlight => inFlight = 0 /\ session # "started"]_vars

\* the recognition of the second section of an image of the second document
\* is in flight
C15_Witness ==
    /\ pc = "recognize"
    /\ inFlight = 1
    /\ imageIndex = 2
    /\ images[2].pdfUrl # images[1].pdfUrl
    /\ sectionY = SectionStep

\* C16: when insertRow rejects, the step that rejects writes nothing, leaves
\* parsePdf and main and reaches the catch of main's caller; from then on no
\* step is taken (no record inserted, no image or document processed), and
\* completion is never reported after a rejection.
C16_RejectedWriteAbortsRun ==
    [][/\ pc # "aborted"
       /\ outcome' = "rejected" =>
             /\ pc' = "aborted"
             /\ report' = "error"
             /\ database' = database
             /\ imageIndex' = imageIndex
       /\ report' = "Complete." => outcome' # "rejected"]_vars

\* an insert was rejected with its application still to be inserted and an
\* image still to be examined
C16_Witness ==
    /\ pc = "aborted"
    /\ outcome = "rejected"
    /\ report = "error"
    /\ pending # <<>>
    /\ imageIndex < Len(images)

-----------------------------------------------------------------------------
(* Claims about parseImage, under SpecImage.                               *)

\* the image that parseImage examines
Image == images[imageIndex]

\* row r of the image (counted from 1) once the rules of the whole image are
\* removed: a rule below another row takes the most common colour of the
\* row above it as the image has it
RemovedRow(r) ==
    IF r > 1 /\ IsRule(Image.data[r], Image.width)
    THEN IF MostCommonIsDark(Image.data[r - 1], Image.width) THEN Image.width ELSE 0
    ELSE Image.data[r]

\* C23 as claimed: the pass that removes the rules runs once for an image,
\* before any section is cropped, and not again for its later sections.
C23_RulesRemovedOncePerImage ==
    bands # <<>> => removals = 1

\* C23: the pass that removes the rules runs once for every section, over a
\* copy of the whole image and before the section is cropped, so that each
\* section is cut from the image with the rules of the whole image removed.
C23_RulesRemovedOncePerSection ==
    /\ removals = Len(bands)
    /\ pc = "recognize" =>
          /\ Len(jimpImage) = sectionHeight
          /\ \A k \in 1..sectionHeight : jimpImage[k] = RemovedRow(sectionY + k)

\* a later section starts with a row that is a rule in the image and was
\* cleared because the row above it, which is not in the section, is light
C23_Witness ==
    /\ pc = "recognize"
    /\ removals >= 2
    /\ sectionY >= SectionStep
    /\ IsRule(Image.data[sectionY + 1], Image.width)
    /\ jimpImage[1] = 0

\* C24: every word handed to the column and row logic has the y of its line
\* in the image, in pixels of the scaled buffers: the offset of the section
\* is added in the scale of word.bbox.y0, so that a line recognised in two
\* sections has the same y in both.
C24_WordsInImageSpace ==
    \A l \in DOMAIN lines : \A w \in DOMAIN lines[l] :
        lines[l][w].bounds.y = Image.textY * scaleFactor

\* the line of text that starts at row 10 was recognised in the section at
\* 0 and in the section at 5, and parseLines is called with both
C24_Witness ==
    /\ pc = "findColumns"
    /\ Image.textY = 10
    /\ Len(lines) >= 2
    /\ lines[1] = lines[2]
    /\ lines[1][1].bounds.y = 50

\* the image rows (counted from 0) that the band covers
BandRows(band) == band.y .. (band.y + band.height - 1)

\* the bands start at 0, SectionStep, 2 x SectionStep, ... below the height
\* of the image, lie inside the image, each overlaps the one before it, and
\* after the loop every row of the image is in a band
BandsAreLaidOut ==
    /\ \A i \in DOMAIN bands :
          /\ bands[i].y = (i - 1) * SectionStep
          /\ bands[i].y < Image.height
          /\ BandRows(bands[i]) \subseteq 0 .. (Image.height - 1)
          /\ i > 1 => BandRows(bands[i - 1]) \cap BandRows(bands[i]) # {}
    /\ pc = "findColumns" =>
          \A r \in 0 .. (Image.height - 1) :
              \E i \in DOMAIN bands : r \in BandRows(bands[i])

InitBands ==
    /\ InitImage
    /\ \E height \in 1..MaxImageHeight :
          images = <<PageImage(height, 0, 0, FALSE, NoText)>>

SpecBands == InitBands /\ [][NextImage]_vars /\ WF_vars(NextImage)

C30_NoRuleLeft ==
    pc = "recognize" =>
        \A k \in DOMAIN jimpImage :
            (sectionY + k > 1 /\ IsRule(Image.data[sectionY + k], Image.width))
                => ~IsRule(jimpImage[k], Image.width)

=============================================================================
